------------------------------ MODULE Spec2Model ------------------------------
(***************************************************************************)
(* A model of the Unreal Engine remote-control bridge: the connection      *)
(* manager (unreal_connection.py, unreal_mcp_server.py), the actor         *)
(* operations (unreal_actors.py, unreal_modeling.py, unreal_mcp_server.py),*)
(* the asset queries (unreal_assets.py) and the helpers of unreal_utils.py.*)
(*                                                                         *)
(* Every operation is one action.  The engine is the environment: each     *)
(* HTTP round trip of an operation ends "ok", "err" (a transport error:    *)
(* timeout, refused connection, non-2xx status) or "empty" (a response     *)
(* without a usable ReturnValue), as an oracle chosen with the operation   *)
(* says.  Python strings that the code searches (`in`) are sequences of    *)
(* one-character strings; other strings are TLA+ strings.                  *)
(***************************************************************************)
EXTENDS Integers, Sequences, FiniteSets, TLC

VARIABLES
    conn,      \* the two process-wide handles: [C |-> ..., S |-> ...]
    actors,    \* the engine's level: a sequence of [path, label, cls]
    pc,        \* "idle": waiting for a request; "done": an operation returned
    op,        \* the operation that ran last, with its input
    log,       \* the HTTP round trips of that operation, in order
    result     \* what that operation returned

vars == <<conn, actors, pc, op, log, result>>

-----------------------------------------------------------------------------
(* Bounds of the model. *)

\* The level holds at most this many actors.
MaxActors == 2
\* The engine is out of reach for at most this many round trips in a row
\* (or else from some round trip on, for good).
MaxErrRun == 2

-----------------------------------------------------------------------------
(* Strings the code searches with `in`. *)

StrStaticMeshActor == <<"S","t","a","t","i","c","M","e","s","h","A","c","t","o","r">>
StrLight == <<"L","i","g","h","t">>
StrPlayerStart == <<"P","l","a","y","e","r","S","t","a","r","t">>
StrSkyAtmosphere == <<"S","k","y","A","t","m","o","s","p","h","e","r","e">>
StrSkyLight == <<"S","k","y","L","i","g","h","t">>
StrFog == <<"F","o","g">>
StrVolumetricCloud == <<"V","o","l","u","m","e","t","r","i","c","C","l","o","u","d">>
StrPointLight == <<"P","o","i","n","t","L","i","g","h","t">>
StrExponentialHeightFog == <<"E","x","p","o","n","e","n","t","i","a","l","H","e","i","g","h","t","F","o","g">>
StrCameraActor == <<"C","a","m","e","r","a","A","c","t","o","r">>
\* The object path of an actor of the persistent level, up to the actor's name.
LevelPrefix == <<"/","G","a","m","e","/","M","a","p",".","M","a","p",":","P","e","r","s","i","s","t","e","n","t","L","e","v","e","l",".">>
Digit == <<"0","1","2","3","4","5","6","7","8","9">>

\* Python's `sub in s` on strings.
Contains(s, sub) == \E i \in 0..(Len(s) - Len(sub)) : SubSeq(s, i + 1, i + Len(sub)) = sub

\* The object path of the n-th actor (from 0) of class `cls`.
ActorPath(cls, n) == LevelPrefix \o cls \o <<"_">> \o <<Digit[n + 1]>>

-----------------------------------------------------------------------------
(* The wire: one HTTP round trip and what the engine answered. *)

NoFault == [err |-> {}, empty |-> {}]
\* The oracles of an operation that makes at most n round trips: no fault,
\* an outage of up to MaxErrRun round trips, an outage that lasts, or one
\* answer without a ReturnValue.
Oracles(n) ==
    {NoFault}
    \cup {[err |-> {i \in k..n : i < k + w}, empty |-> {}] : k \in 1..n, w \in 1..MaxErrRun}
    \cup {[err |-> k..n, empty |-> {}] : k \in 1..n}
    \cup {[err |-> {}, empty |-> {k}] : k \in 1..n}

Outcome(orc, i) == IF i \in orc.err THEN "err" ELSE IF i \in orc.empty THEN "empty" ELSE "ok"

\* requests.put(base_url, json=payload): the i-th round trip of the operation.
Put(l, orc, fn, target, params) == Append(l, [fn |-> fn, target |-> target, params |-> params, out |-> Outcome(orc, Len(l) + 1)])

Last(l) == l[Len(l)]
\* The last round trip raised (requests.exceptions.RequestException).
Raised(l) == Last(l).out = "err"

NoParams == [none |-> TRUE]

\* `x = e` followed by the statements F that use x: e is computed once.
Let(e, F(_)) == F(e)

\* The targets of a round trip: a handle's probe, a default object of the
\* engine, and the objects of the level by their reference.
Handle(h) == [k |-> "handle", h |-> h]
Static(o) == [k |-> "static", o |-> o]
Actor(path) == [k |-> "actor", path |-> path]
Component(path) == [k |-> "component", path |-> path]
Material(path) == [k |-> "material", path |-> path]

\* UnrealConnection.test_connection: True when the probe went through, False on
\* any exception; it never raises.
test_connection(l, orc, handle) == Put(l, orc, "test_connection", Handle(handle), NoParams)

\* UnrealConnection.send_command: one round trip; the caller sees Raised.
send_command(l, orc, target, fn, params) == Put(l, orc, fn, target, params)

-----------------------------------------------------------------------------
(* The connection manager. *)

\* unreal_connection.get_unreal_connection.  c is the global before the call.
\* Answers the global after it, the handle returned ("cached", "fresh", or
\* "none" when the call raised) and the probes made.
get_unreal_connection_C(c, orc, l) ==
    LET l1 == IF c # "None" THEN test_connection(l, orc, "cached") ELSE l
        \* line 162: the cached handle is returned when its probe succeeds
        early == c # "None" /\ ~Raised(l1)
        \* lines 164-167 run only when test_connection raises, which it never does
        c1 == c
        l2 == IF ~early /\ c1 = "None" THEN test_connection(l1, orc, "fresh") ELSE l1
    IN  IF early THEN [conn |-> c, handle |-> "cached", raised |-> FALSE, log |-> l1]
        ELSE IF c1 = "None"
             THEN IF Raised(l2)
                  THEN [conn |-> "None", handle |-> "none", raised |-> TRUE, log |-> l2]
                  ELSE [conn |-> "Handle", handle |-> "fresh", raised |-> FALSE, log |-> l2]
             \* line 178: the global is still the handle whose probe failed
             ELSE [conn |-> c1, handle |-> "cached", raised |-> FALSE, log |-> l2]

\* unreal_mcp_server.get_unreal_connection: the result of the revalidation
\* probe is not looked at (lines 134-135).
get_unreal_connection_S(c, orc, l) ==
    IF c # "None"
    THEN [conn |-> c, handle |-> "cached", raised |-> FALSE, log |-> test_connection(l, orc, "cached")]
    ELSE LET l1 == test_connection(l, orc, "fresh")
         IN  IF Raised(l1)
             THEN [conn |-> "None", handle |-> "none", raised |-> TRUE, log |-> l1]
             ELSE [conn |-> "Handle", handle |-> "fresh", raised |-> FALSE, log |-> l1]

\* The getter an implementation uses: unreal_actors and unreal_assets ("A")
\* import unreal_connection's; unreal_mcp_server ("S") and, through
\* register_connection_getter, unreal_modeling ("M") use the server's.
Global(impl) == IF impl = "A" THEN "C" ELSE "S"
get_unreal_connection(impl, cn, orc) ==
    IF impl = "A" THEN get_unreal_connection_C(cn.C, orc, <<>>)
    ELSE get_unreal_connection_S(cn.S, orc, <<>>)

\* The globals after an operation of `impl` whose getter answered g.
ConnAfter(impl, cn, g) == [cn EXCEPT ![Global(impl)] = g.conn]

-----------------------------------------------------------------------------
(* The engine, as far as the operations read it: the actors of the level in *)
(* enumeration order, each with its object path and its display label.      *)

SceneClasses == {StrStaticMeshActor, StrSkyLight, StrPointLight}
LabelA == <<"A">>
LabelB == <<"B">>
SceneLabels == {LabelA, LabelB}

MkScene(f) == [i \in 1..Len(f) |-> [path |-> ActorPath(f[i][1], Cardinality({j \in 1..(i - 1) : f[j][1] = f[i][1]})), label |-> f[i][2], cls |-> f[i][1]]]
\* The levels an operation may find: up to MaxActors actors, of the given
\* classes and labels.
ScenesOf(classes, labels) == {MkScene(f) : f \in UNION {[1..n -> classes \X labels] : n \in 0..MaxActors}}
Scenes == ScenesOf(SceneClasses, SceneLabels)

Paths(as) == [i \in 1..Len(as) |-> as[i].path]
LabelOf(as, path) == IF \E i \in 1..Len(as) : as[i].path = path THEN (CHOOSE a \in {as[i] : i \in 1..Len(as)} : a.path = path).label ELSE <<>>

\* The part of s after its last `ch` (Python's s.split(ch)[-1]).
AfterLast(s, ch) == LET at == {i \in 1..Len(s) : s[i] = ch} IN IF at = {} THEN s ELSE SubSeq(s, (CHOOSE i \in at : \A j \in at : j <= i) + 1, Len(s))
\* The part of s before its first `ch` (Python's s.split(ch)[0]).
BeforeFirst(s, ch) == LET at == {i \in 1..Len(s) : s[i] = ch} IN IF at = {} THEN s ELSE SubSeq(s, 1, (CHOOSE i \in at : \A j \in at : i <= j) - 1)

-----------------------------------------------------------------------------
(* The type tag of an actor, inferred from its object path. *)

\* The if/elif chain of get_level_info and get_actor_info.
InferActorType(path) ==
    IF Contains(path, StrStaticMeshActor) THEN "StaticMeshActor"
    ELSE IF Contains(path, StrLight) THEN "Light"
    ELSE IF Contains(path, StrPlayerStart) THEN "PlayerStart"
    ELSE IF Contains(path, StrSkyAtmosphere) THEN "SkyAtmosphere"
    ELSE IF Contains(path, StrSkyLight) THEN "SkyLight"
    ELSE IF Contains(path, StrFog) THEN "Fog"
    ELSE IF Contains(path, StrVolumetricCloud) THEN "VolumetricCloud"
    ELSE "Unknown"

-----------------------------------------------------------------------------
(* get_level_info (unreal_assets.py, and the tool of unreal_mcp_server.py). *)

EditorActorSubsystem == Static("/Script/UnrealEd.Default__EditorActorSubsystem")
StrUnknown == <<"U","n","k","n","o","w","n">>

\* The loop over the actor paths: per actor a GetActorLabel and a
\* GetActorLocation round trip, each in its own try.
RECURSIVE level_info_loop(_, _, _, _, _, _)
level_info_loop(l, orc, as, paths, i, infos) ==
    IF i > Len(paths) THEN [log |-> l, infos |-> infos]
    ELSE LET path == paths[i]
             l1 == send_command(l, orc, Actor(path), "GetActorLabel", NoParams)
             label == IF Raised(l1) THEN AfterLast(path, ".")
                      ELSE IF Last(l1).out = "empty" THEN StrUnknown
                      ELSE LabelOf(as, path)
             l2 == send_command(l1, orc, Actor(path), "GetActorLocation", NoParams)
             location == IF Raised(l2) THEN "Unknown" ELSE IF Last(l2).out = "empty" THEN "{}" ELSE "ReturnValue"
             info == [path |-> path, label |-> label, location |-> location, type |-> InferActorType(path)]
         IN  level_info_loop(l2, orc, as, paths, i + 1, Append(infos, info))

get_level_info(impl, cn, as, orc) ==
    LET g == get_unreal_connection(impl, cn, orc)
        l1 == send_command(g.log, orc, EditorActorSubsystem, "GetAllLevelActors", NoParams)
        paths == IF Last(l1).out = "empty" THEN <<>> ELSE Paths(as)
        loop == level_info_loop(l1, orc, as, paths, 1, <<>>)
        level_name == IF Len(paths) > 0 THEN AfterLast(BeforeFirst(paths[1], ":"), ".") ELSE StrUnknown
    IN  IF g.raised THEN [conn |-> g, log |-> g.log, result |-> [kind |-> "error", msg |-> "Error getting level info", cause |-> "connect"]]
        ELSE IF Raised(l1) THEN [conn |-> g, log |-> l1, result |-> [kind |-> "error", msg |-> "Error getting level info", cause |-> "communication"]]
        ELSE [conn |-> g, log |-> loop.log, result |-> [kind |-> "json", level_name |-> level_name, actor_count |-> Len(paths), actors |-> loop.infos]]

-----------------------------------------------------------------------------
(* What a log of round trips tells. *)

\* A send_command round trip of the log (not a probe) ended in a transport error.
HadTransportError(l) == \E i \in 1..Len(l) : l[i].fn # "test_connection" /\ l[i].out = "err"

-----------------------------------------------------------------------------
(* Actions. *)

NoOp == [tool |-> "none", impl |-> "none"]
\* Between two requests: nothing is running and the last result is gone.
Served == [tool |-> "idle", impl |-> "none"]
NoResult == [kind |-> "none"]

\* The handles are created lazily: none exists when the process starts.
InitIdle == /\ conn = [C |-> "None", S |-> "None"]
            /\ pc = "idle" /\ op = NoOp /\ log = <<>> /\ result = NoResult 

\* The caller takes the result; the server waits for the next request.
Return ==
    /\ pc = "done"
    /\ pc' = "idle"
    /\ op' = Served /\ log' = <<>> /\ result' = NoResult
    /\ UNCHANGED <<conn, actors>>

\* The process ends (server_lifespan's finally clears the global) and starts again.
Restart ==
    /\ pc = "idle" /\ op # NoOp
    /\ conn' = [C |-> "None", S |-> "None"]
    /\ op' = NoOp /\ log' = <<>> /\ result' = NoResult
    /\ UNCHANGED <<actors, pc>>

\* server_lifespan: the startup probe, get_unreal_connection() and then
\* test_connection() on what it returned; a failure is only logged.
Startup ==
    /\ pc = "idle" /\ op = NoOp
    /\ \E orc \in Oracles(2) :
         LET g == get_unreal_connection_S(conn.S, orc, <<>>)
             l1 == IF g.raised THEN g.log ELSE test_connection(g.log, orc, g.handle)
         IN  /\ conn' = [conn EXCEPT !.S = g.conn]
             /\ log' = l1
             /\ result' = [kind |-> "startup", handle |-> g.handle, raised |-> g.raised, connected |-> ~g.raised /\ ~Raised(l1)]
    /\ op' = [tool |-> "server_lifespan", impl |-> "S"]
    /\ pc' = "done"
    /\ UNCHANGED actors

\* A bare request for the handle, as every operation makes first.
GetUnrealConnection(impl) ==
    /\ pc = "idle"
    /\ \E orc \in Oracles(1) :
         LET g == get_unreal_connection(impl, conn, orc)
         IN  /\ conn' = ConnAfter(impl, conn, g)
             /\ log' = g.log
             /\ result' = [kind |-> "handle", handle |-> g.handle, raised |-> g.raised]
    /\ op' = [tool |-> "get_unreal_connection", impl |-> impl]
    /\ pc' = "done"
    /\ UNCHANGED actors

\* The round trips of get_level_info: the probe, the enumeration, two per actor.
LevelInfoCalls == 2 + 2 * MaxActors

GetLevelInfo(impl) ==
    /\ pc = "idle"
    /\ \E orc \in Oracles(LevelInfoCalls) :
         \E r \in {get_level_info(impl, conn, actors, orc)} :
             /\ conn' = ConnAfter(impl, conn, r.conn)
             /\ log' = r.log
             /\ result' = r.result
    /\ op' = [tool |-> "get_level_info", impl |-> impl]
    /\ pc' = "done"
    /\ UNCHANGED actors

InitConn == InitIdle /\ actors \in Scenes
NextConn ==
    \/ Startup
    \/ \E impl \in {"A", "S"} : GetUnrealConnection(impl)
    \/ \E impl \in {"A", "S"} : GetLevelInfo(impl)
    \/ Return
    \/ Restart
SpecConn == InitConn /\ [][NextConn]_vars

-----------------------------------------------------------------------------
(* Python values, as far as the code tells them apart. *)

PyNone == [t |-> "none"]
PyInt(n) == [t |-> "int", v |-> n]
PyFloat(n) == [t |-> "float", v |-> n]
PyBool(b) == [t |-> "bool", v |-> b]
PyStr(s) == [t |-> "str", v |-> s]
PyList(s) == [t |-> "list", v |-> s]

IsNumber(x) == x.t \in {"int", "float"}
\* bool(x): what `if x:` and `x or y` look at.
Truthy(x) ==
    CASE x.t = "none" -> FALSE
      [] x.t = "bool" -> x.v
      [] x.t \in {"int", "float"} -> x.v # 0
      [] x.t = "str" -> x.v # <<>>
      [] x.t = "list" -> Len(x.v) > 0
\* float(x) of a number; of anything else it raises.
CanFloat(x) == x.t \in {"int", "float", "bool"}
ToFloat(x) == IF x.t = "bool" THEN PyFloat(IF x.v THEN 1 ELSE 0) ELSE PyFloat(x.v)

-----------------------------------------------------------------------------
(* unreal_utils.vector_to_ue_format *)

KeysXYZ == <<"X", "Y", "Z">>
KeysRotation == <<"Pitch", "Yaw", "Roll">>
KeysRGBA == <<"R", "G", "B", "A">>

\* The value a field gets when the vector does not supply it.
DefaultField(k) == IF k # "A" THEN PyFloat(0) ELSE PyFloat(1)

\* keys = <<>> stands for the argument left out (None).  Answers the labeled
\* mapping, or "raise" when float() meets a component that is no number.
vector_to_ue_format(vector, keys0) ==
    LET keys == IF keys0 = <<>> THEN KeysXYZ ELSE keys0
    IN  IF vector.t # "list" \/ Len(vector.v) < Len(keys)
        THEN [kind |-> "dict", d |-> [k \in {keys[i] : i \in 1..Len(keys)} |-> DefaultField(k)]]
        ELSE IF \E i \in 1..Len(keys) : ~CanFloat(vector.v[i])
        THEN [kind |-> "raise"]
        ELSE [kind |-> "dict", d |-> [k \in {keys[i] : i \in 1..Len(keys)} |->
                 LET i == CHOOSE j \in 1..Len(keys) : keys[j] = k
                 IN  IF i <= Len(vector.v) THEN ToFloat(vector.v[i]) ELSE DefaultField(k)]]


-----------------------------------------------------------------------------
(* The pure helpers on their own: the input is drawn when the run starts.   *)

\* A vector has at most this many components.
MaxVecLen == 4
VecElems == {PyInt(1), PyInt(2), PyFloat(3)}
VecInputs == {PyNone, PyStr(<<"1">>), PyList(<<PyStr(<<"a">>), PyInt(1), PyInt(1)>>)} \cup {PyList(s) : s \in UNION {[1..n -> VecElems] : n \in 0..MaxVecLen}}
KeyInputs == {<<>>, KeysXYZ, KeysRotation, KeysRGBA}

InitVec ==
    /\ conn = [C |-> "None", S |-> "None"] /\ actors = <<>>
    /\ pc = "idle" /\ log = <<>> /\ result = NoResult 
    /\ op \in {[tool |-> "vector_to_ue_format", impl |-> "U", vector |-> v, keys |-> k] : v \in VecInputs, k \in KeyInputs}

VectorToUeFormat ==
    /\ pc = "idle" /\ op.tool = "vector_to_ue_format"
    /\ result' = vector_to_ue_format(op.vector, op.keys)
    /\ pc' = "done"
    /\ UNCHANGED <<conn, actors, op, log>>

SpecVec == InitVec /\ [][VectorToUeFormat]_vars

\* The actors a level may hold, by class and by level name.
FogLevelPrefix == <<"/","G","a","m","e","/","F","o","g","M","a","p",".","F","o","g","M","a","p",":","P","e","r","s","i","s","t","e","n","t","L","e","v","e","l",".">>
StrDirectionalLight == <<"D","i","r","e","c","t","i","o","n","a","l","L","i","g","h","t">>
TypeClasses == {StrStaticMeshActor, StrPointLight, StrDirectionalLight, StrSkyLight, StrPlayerStart, StrSkyAtmosphere, StrExponentialHeightFog, StrVolumetricCloud, StrCameraActor}
\* Actors of one class are numbered from 0 to this.
MaxIndex == 2

InitType ==
    /\ conn = [C |-> "None", S |-> "None"] /\ actors = <<>>
    /\ pc = "idle" /\ log = <<>> /\ result = NoResult 
    /\ op \in {[tool |-> "infer_type", impl |-> "A", cls |-> c, path |-> pre \o c \o <<"_", Digit[n + 1]>>] : pre \in {LevelPrefix, FogLevelPrefix}, c \in TypeClasses, n \in 0..MaxIndex}

InferType ==
    /\ pc = "idle" /\ op.tool = "infer_type"
    /\ result' = [kind |-> "type", type |-> InferActorType(op.path)]
    /\ pc' = "done"
    /\ UNCHANGED <<conn, actors, op, log>>

SpecType == InitType /\ [][InferType]_vars


-----------------------------------------------------------------------------
(* Parameter maps (Python dicts with string keys) and the helpers on them.  *)

\* dict.get(k): None for a key that is not there.
Get(p, k) == IF k \in DOMAIN p THEN p[k] ELSE PyNone
\* Python's `a or b`.
Or(a, b) == IF Truthy(a) THEN a ELSE b

\* unreal_utils.validate_required_params: the keys found missing.
validate_required_params(params, required_keys) == {key \in required_keys : ~Truthy(Get(params, key))}

\* unreal_utils.format_transform_params: the formatted location, rotation and
\* scale of the keys whose value is truthy; "raise" when a formatter raises.
format_transform_params(params) ==
    LET present == {k \in {"location", "rotation", "scale"} : Truthy(Get(params, k))}
        conv(k) == vector_to_ue_format(Get(params, k), IF k = "rotation" THEN KeysRotation ELSE <<>>)
    IN  IF \E k \in present : conv(k).kind = "raise" THEN [kind |-> "raise"]
        ELSE [kind |-> "dict", d |-> [k \in present |-> conv(k).d]]

-----------------------------------------------------------------------------
(* What the engine answers about an actor. *)

ClassOf(as, path) == IF \E i \in 1..Len(as) : as[i].path = path THEN (CHOOSE a \in {as[i] : i \in 1..Len(as)} : a.path = path).cls ELSE <<>>
\* GetComponentByClass(StaticMeshComponent): the component of a static mesh
\* actor, nothing for any other actor.
ComponentOf(as, path) == IF Contains(ClassOf(as, path), StrStaticMeshActor) THEN path \o <<".", "S", "M", "C">> ELSE <<>>
\* CreateDynamicMaterialInstance: the instance made for the component.
MaterialOf(component) == component \o <<".", "M", "I", "D">>
StaticMeshComponentClass == "/Script/Engine.StaticMeshComponent"
BasicShapeMaterial == "/Engine/BasicShapes/BasicShapeMaterial.BasicShapeMaterial"

-----------------------------------------------------------------------------
(* Looking an actor up by its label. *)

\* UnrealConnection.find_actor_by_label, the loop: a GetActorLabel that fails
\* falls back to `actor_label in path`, which raises for a label that is no
\* string.
RECURSIVE find_actor_loop(_, _, _, _, _, _)
find_actor_loop(l, orc, as, paths, i, actor_label) ==
    IF i > Len(paths) THEN [log |-> l, path |-> <<>>]
    ELSE LET l1 == send_command(l, orc, Actor(paths[i]), "GetActorLabel", NoParams)
             label == IF Last(l1).out = "empty" THEN <<>> ELSE LabelOf(as, paths[i])
         IN  IF Raised(l1)
             THEN IF actor_label.t # "str" THEN [log |-> l1, path |-> <<>>]
                  ELSE IF Contains(paths[i], actor_label.v) THEN [log |-> l1, path |-> paths[i]]
                  ELSE find_actor_loop(l1, orc, as, paths, i + 1, actor_label)
             ELSE IF actor_label.t = "str" /\ actor_label.v = label THEN [log |-> l1, path |-> paths[i]]
             ELSE find_actor_loop(l1, orc, as, paths, i + 1, actor_label)

\* UnrealConnection.find_actor_by_label: the path, or <<>> (None) when no
\* actor matches or anything raised.
find_actor_by_label(l, orc, as, actor_label) ==
    LET l1 == send_command(l, orc, EditorActorSubsystem, "GetAllLevelActors", NoParams)
        paths == IF Last(l1).out = "empty" THEN <<>> ELSE Paths(as)
    IN  IF Raised(l1) THEN [log |-> l1, path |-> <<>>]
        ELSE find_actor_loop(l1, orc, as, paths, 1, actor_label)

\* The lookup loop unreal_modeling.modify_actor carries inline: a
\* GetActorLabel that fails leaves through the handler's except.
RECURSIVE modeling_find_loop(_, _, _, _, _, _)
modeling_find_loop(l, orc, as, paths, i, actor_label) ==
    IF i > Len(paths) THEN [log |-> l, path |-> <<>>, raised |-> FALSE]
    ELSE LET l1 == send_command(l, orc, Actor(paths[i]), "GetActorLabel", NoParams)
             label == IF Last(l1).out = "empty" THEN <<>> ELSE LabelOf(as, paths[i])
         IN  IF Raised(l1) THEN [log |-> l1, path |-> <<>>, raised |-> TRUE]
             ELSE IF actor_label.t = "str" /\ actor_label.v = label THEN [log |-> l1, path |-> paths[i], raised |-> FALSE]
             ELSE modeling_find_loop(l1, orc, as, paths, i + 1, actor_label)

\* UnrealConnection.get_component_by_class: None when the call raised.
get_component_by_class(l, orc, as, actor_path) ==
    LET l1 == send_command(l, orc, Actor(actor_path), "GetComponentByClass", [ComponentClass |-> StaticMeshComponentClass])
    IN  [log |-> l1, path |-> IF Last(l1).out = "ok" THEN ComponentOf(as, actor_path) ELSE <<>>]

-----------------------------------------------------------------------------
(* modify_actor (unreal_actors.py: "A"; unreal_modeling.py, which the       *)
(* server's modify_actor tool calls: "M").                                   *)

\* Round trips a handler sends in order, on `target` or on the object a step
\* names; the first that raises ends the handler.
RECURSIVE send_steps(_, _, _, _, _)
send_steps(l, orc, target, steps, i) ==
    IF i > Len(steps) THEN l
    ELSE Let(send_command(l, orc, IF "on" \in DOMAIN steps[i] THEN steps[i].on ELSE target, steps[i].fn, steps[i].params), LAMBDA l1 :
         IF Raised(l1) THEN l1 ELSE send_steps(l1, orc, target, steps, i + 1))

SetHidden(visible) == IF visible.t # "none" THEN <<[fn |-> "SetActorHiddenInGame", params |-> [bNewHidden |-> ~Truthy(visible)]]>> ELSE <<>>

\* unreal_actors.modify_actor, lines 270-301: what is sent for the formatted
\* transform and for `visible`.
modify_steps_A(params, transform) ==
    (IF "location" \in DOMAIN transform THEN <<[fn |-> "SetActorLocation", params |-> [NewLocation |-> transform["location"]]]>> ELSE <<>>)
    \o (IF "rotation" \in DOMAIN transform THEN <<[fn |-> "SetActorRotation", params |-> [NewRotation |-> transform["rotation"]]]>> ELSE <<>>)
    \o (IF "scale" \in DOMAIN transform THEN <<[fn |-> "SetActorScale3D", params |-> [NewScale3D |-> transform["scale"]]]>> ELSE <<>>)
    \o SetHidden(Get(params, "visible"))

\* `v and isinstance(v, list) and len(v) >= 3`
IsList3(v) == Truthy(v) /\ v.t = "list" /\ Len(v.v) >= 3

\* unreal_modeling.modify_actor, lines 270-300: the components are passed on
\* as they came.
modify_steps_M(params) ==
    LET location == Get(params, "location")
        rotation == Get(params, "rotation")
        scale == Get(params, "scale")
    IN  (IF IsList3(location) THEN <<[fn |-> "SetActorLocation", params |-> [NewLocation |-> [X |-> location.v[1], Y |-> location.v[2], Z |-> location.v[3]]]]>> ELSE <<>>)
        \o (IF IsList3(rotation) THEN <<[fn |-> "SetActorRotation", params |-> [NewRotation |-> [Pitch |-> rotation.v[1], Yaw |-> rotation.v[2], Roll |-> rotation.v[3]]]]>> ELSE <<>>)
        \o (IF IsList3(scale) THEN <<[fn |-> "SetActorScale3D", params |-> [NewScale3D |-> [X |-> scale.v[1], Y |-> scale.v[2], Z |-> scale.v[3]]]]>> ELSE <<>>)
        \o SetHidden(Get(params, "visible"))

\* The material steps on a component: a dynamic material instance, then its
\* "Color" parameter.  with_alpha: a fourth component replaces the alpha 1.0.
set_material_color(l, orc, component_path, color, with_alpha) ==
    LET l1 == send_command(l, orc, Component(component_path), "CreateDynamicMaterialInstance", [ElementIndex |-> 0, SourceMaterial |-> BasicShapeMaterial])
        material_path == IF Last(l1).out = "ok" THEN MaterialOf(component_path) ELSE <<>>
        alpha == IF with_alpha /\ Len(color.v) >= 4 THEN color.v[4] ELSE PyFloat(1)
        l2 == send_command(l1, orc, Material(material_path), "SetVectorParameterValue", [ParameterName |-> "Color", Value |-> [R |-> color.v[1], G |-> color.v[2], B |-> color.v[3], A |-> alpha]])
    IN  IF component_path = <<>> THEN l
        ELSE IF Raised(l1) \/ material_path = <<>> THEN l1
        ELSE l2

\* unreal_actors.modify_actor, lines 304-335.
modify_color_A(l, orc, as, actor_path, params) ==
    LET color == Or(Get(params, "color"), Get(params, "material_color"))
        c == get_component_by_class(l, orc, as, actor_path)
    IN  IF IsList3(color) THEN set_material_color(c.log, orc, c.path, color, TRUE) ELSE l

\* unreal_modeling.modify_actor, lines 302-345.
modify_color_M(l, orc, as, actor_path, params) ==
    LET material_color == Or(Get(params, "material_color"), Get(params, "color"))
        l1 == send_command(l, orc, Actor(actor_path), "GetClass", NoParams)
        class_name == IF Last(l1).out = "ok" THEN ClassOf(as, actor_path) ELSE <<>>
        l2 == send_command(l1, orc, Actor(actor_path), "GetComponentByClass", [ComponentClass |-> StaticMeshComponentClass])
        component_path == IF Last(l2).out = "ok" THEN ComponentOf(as, actor_path) ELSE <<>>
    IN  IF ~IsList3(material_color) THEN l
        ELSE IF Raised(l1) \/ ~Contains(class_name, StrStaticMeshActor) THEN l1
        ELSE IF Raised(l2) THEN l2
        ELSE set_material_color(l2, orc, component_path, material_color, FALSE)

ModifyError(g, l, path) == [conn |-> g, log |-> l, result |-> [kind |-> "error", msg |-> "Error modifying actor", path |-> path]]

modify_actor_A(cn, as, params, orc) ==
    LET actor_label == Get(params, "actor_label")
        missing == validate_required_params(params, {"actor_label"})
        transform == format_transform_params(params)
    IN  Let(get_unreal_connection("A", cn, orc), LAMBDA g :
        IF g.raised THEN ModifyError(g, g.log, <<>>)
        ELSE IF missing # {} THEN [conn |-> g, log |-> g.log, result |-> [kind |-> "missing", msg |-> "Missing required parameters", path |-> <<>>]]
        ELSE Let(find_actor_by_label(g.log, orc, as, actor_label), LAMBDA found :
        IF found.path = <<>> THEN [conn |-> g, log |-> found.log, result |-> [kind |-> "notfound", msg |-> "not found in the current level", path |-> <<>>]]
        ELSE IF transform.kind = "raise" THEN ModifyError(g, found.log, found.path)
        ELSE Let(send_steps(found.log, orc, Actor(found.path), modify_steps_A(params, transform.d), 1), LAMBDA l1 :
        IF Len(l1) > Len(found.log) /\ Raised(l1) THEN ModifyError(g, l1, found.path)
        ELSE Let(modify_color_A(l1, orc, as, found.path, params), LAMBDA l2 :
        IF Len(l2) > Len(l1) /\ Last(l2).fn # "GetComponentByClass" /\ Raised(l2) THEN ModifyError(g, l2, found.path)
        ELSE [conn |-> g, log |-> l2, result |-> [kind |-> "ok", msg |-> "Successfully modified actor", path |-> found.path]]))))

modify_actor_M(cn, as, params, orc) ==
    LET actor_label == Get(params, "actor_label")
    IN  Let(get_unreal_connection("M", cn, orc), LAMBDA g :
        IF g.raised THEN ModifyError(g, g.log, <<>>)
        ELSE IF ~Truthy(actor_label) THEN [conn |-> g, log |-> g.log, result |-> [kind |-> "missing", msg |-> "Error: actor_label parameter is required", path |-> <<>>]]
        ELSE Let(send_command(g.log, orc, EditorActorSubsystem, "GetAllLevelActors", NoParams), LAMBDA l0 :
        IF Raised(l0) THEN ModifyError(g, l0, <<>>)
        ELSE Let(modeling_find_loop(l0, orc, as, IF Last(l0).out = "empty" THEN <<>> ELSE Paths(as), 1, actor_label), LAMBDA found :
        IF found.raised THEN ModifyError(g, found.log, <<>>)
        ELSE IF found.path = <<>> THEN [conn |-> g, log |-> found.log, result |-> [kind |-> "notfound", msg |-> "not found in the current level", path |-> <<>>]]
        ELSE Let(send_steps(found.log, orc, Actor(found.path), modify_steps_M(params), 1), LAMBDA l1 :
        IF Len(l1) > Len(found.log) /\ Raised(l1) THEN ModifyError(g, l1, found.path)
        ELSE Let(modify_color_M(l1, orc, as, found.path, params), LAMBDA l2 :
        IF Len(l2) > Len(l1) /\ Raised(l2) THEN ModifyError(g, l2, found.path)
        ELSE [conn |-> g, log |-> l2, result |-> [kind |-> "ok", msg |-> "Successfully modified actor", path |-> found.path]])))))

modify_actor(impl, cn, as, params, orc) == IF impl = "A" THEN modify_actor_A(cn, as, params, orc) ELSE modify_actor_M(cn, as, params, orc)

-----------------------------------------------------------------------------
(* The modify operations on their own. *)

\* The parameter maps P, and each of them with key k set to a value of V.
WithField(P, k, V) == P \cup {p @@ (k :> v) : p \in P, v \in V}

Vec123 == PyList(<<PyInt(1), PyInt(2), PyInt(3)>>)
Vec12 == PyList(<<PyInt(1), PyInt(2)>>)
Red == PyList(<<PyFloat(1), PyFloat(0), PyFloat(0)>>)

\* Every subset of the five fields with a well-formed value.
FieldSubsets ==
    WithField(WithField(WithField(WithField(WithField({<<>>},
        "location", {Vec123}), "rotation", {Vec123}), "scale", {Vec123}), "visible", {PyBool(FALSE)}), "color", {Red})
\* Fields whose value is not a list of three numbers, and the other key of
\* the colour.
OddFields ==
    { ("location" :> Vec12), ("location" :> Vec12) @@ ("rotation" :> Vec123),
      ("scale" :> PyList(<<PyStr(<<"a">>), PyInt(1), PyInt(1)>>)), ("location" :> Vec123) @@ ("scale" :> PyInt(2)),
      ("material_color" :> Red), ("color" :> PyList(<<PyFloat(1), PyFloat(0)>>)) @@ ("visible" :> PyBool(TRUE)) }

\* What modify_actor is asked: the actor labelled A with any of the fields, the
\* actor labelled B and a label that is only part of a path with a few, and
\* requests without a label.
ModifyInputs ==
    {p @@ ("actor_label" :> PyStr(LabelA)) : p \in FieldSubsets \cup OddFields}
    \cup {p @@ ("actor_label" :> PyStr(lb)) : lb \in {LabelB, StrLight}, p \in {("location" :> Vec123), ("color" :> Red) @@ ("visible" :> PyBool(FALSE))}}
    \cup {<<>>, ("location" :> Vec123), ("actor_label" :> PyStr(<<>>))}

\* The level of the modify operations: static mesh actors labelled A and
\* point lights labelled B.
ModifyScenes == {s \in ScenesOf({StrStaticMeshActor, StrPointLight}, SceneLabels) : \A i \in 1..Len(s) : s[i].label = LabelA <=> s[i].cls = StrStaticMeshActor}

\* The round trips an operation may make: those of its run without a fault,
\* and as many more as an outage can add.
Calls(r) == Len(r.log) + MaxErrRun

ModifyActor(impl) ==
    /\ pc = "idle"
    /\ \E params \in ModifyInputs :
         \E orc \in Oracles(Calls(modify_actor(impl, conn, actors, params, NoFault))) :
           \E r \in {modify_actor(impl, conn, actors, params, orc)} :
               /\ conn' = ConnAfter(impl, conn, r.conn)
               /\ log' = r.log
               /\ result' = r.result
               /\ op' = [tool |-> "modify_actor", impl |-> impl, params |-> params]
    /\ pc' = "done"
    /\ UNCHANGED actors

InitModify == InitIdle /\ actors \in ModifyScenes
NextModify ==
    \/ \E impl \in {"A", "M"} : ModifyActor(impl)
    \/ Return
SpecModify == InitModify /\ [][NextModify]_vars

-----------------------------------------------------------------------------
(* Python's str.upper, str.lower and str.capitalize. *)

UpperAlpha == <<"A","B","C","D","E","F","G","H","I","J","K","L","M","N","O","P","Q","R","S","T","U","V","W","X","Y","Z">>
LowerAlpha == <<"a","b","c","d","e","f","g","h","i","j","k","l","m","n","o","p","q","r","s","t","u","v","w","x","y","z">>
UpperCh(c) == IF \E i \in 1..Len(LowerAlpha) : LowerAlpha[i] = c THEN UpperAlpha[CHOOSE i \in 1..Len(LowerAlpha) : LowerAlpha[i] = c] ELSE c
LowerCh(c) == IF \E i \in 1..Len(UpperAlpha) : UpperAlpha[i] = c THEN LowerAlpha[CHOOSE i \in 1..Len(UpperAlpha) : UpperAlpha[i] = c] ELSE c
Upper(s) == [i \in 1..Len(s) |-> UpperCh(s[i])]
Lower(s) == [i \in 1..Len(s) |-> LowerCh(s[i])]
Capitalize(s) == [i \in 1..Len(s) |-> IF i = 1 THEN UpperCh(s[i]) ELSE LowerCh(s[i])]

-----------------------------------------------------------------------------
(* Creating actors: what the code sends and what the engine makes of it.    *)

StrCUBE == <<"C","U","B","E">>
StrSPHERE == <<"S","P","H","E","R","E">>
StrCYLINDER == <<"C","Y","L","I","N","D","E","R">>
StrPLANE == <<"P","L","A","N","E">>
StrCONE == <<"C","O","N","E">>
BasicShapeNames == {StrCUBE, StrSPHERE, StrCYLINDER, StrPLANE, StrCONE}
\* unreal_utils.BASIC_SHAPES, and the mesh_map of the two other modules:
\* "CUBE" |-> "/Engine/BasicShapes/Cube.Cube", and so on.
BASIC_SHAPES == [k \in BasicShapeNames |-> <<"/","E","n","g","i","n","e","/","B","a","s","i","c","S","h","a","p","e","s","/">> \o Capitalize(k) \o <<".">> \o Capitalize(k)]

EditorLevelLibrary == Static("/Script/EditorScriptingUtilities.Default__EditorLevelLibrary")
StaticMeshActorClass == PyStr(<<"/","S","c","r","i","p","t","/","E","n","g","i","n","e",".","S","t","a","t","i","c","M","e","s","h","A","c","t","o","r">>)
StrNewActor == <<"N","e","w","A","c","t","o","r">>
StrNewMesh == <<"N","e","w","M","e","s","h">>
StrMy == <<"M","y">>
StrBlueprintActor == <<"B","l","u","e","p","r","i","n","t","A","c","t","o","r">>

\* unreal_utils.get_common_actor_name
get_common_actor_name(params, default_name) == Or(Get(params, "actor_label"), Or(Get(params, "name"), Or(Get(params, "label"), default_name)))

\* The reference the engine gives the actor a SpawnActorFromClass creates: the
\* class name and the number of actors of that class so far.  Nothing for a
\* class that is no string.
SpawnedPath(as, actor_class) ==
    IF actor_class.t # "str" THEN <<>>
    ELSE LET cls == AfterLast(actor_class.v, ".") IN ActorPath(cls, Cardinality({i \in 1..Len(as) : as[i].cls = cls}))
\* The level once that actor is in it, labelled with its name.
Spawned(as, actor_class) ==
    IF SpawnedPath(as, actor_class) = <<>> THEN as
    ELSE Append(as, [path |-> SpawnedPath(as, actor_class), label |-> AfterLast(SpawnedPath(as, actor_class), "."), cls |-> AfterLast(actor_class.v, ".")])

\* The level after the round trips of a log: an answered SpawnActorFromClass
\* adds its actor, an answered SetActorLabel names it.
ApplyLog(as, l) ==
    LET spawns == {i \in 1..Len(l) : l[i].fn = "SpawnActorFromClass" /\ l[i].out = "ok"}
        s == CHOOSE i \in spawns : TRUE
        as1 == Spawned(as, l[s].params["ActorClass"])
        labels == {i \in 1..Len(l) : l[i].fn = "SetActorLabel" /\ l[i].out # "err" /\ l[i].params.NewActorLabel.t = "str"}
        last == CHOOSE i \in labels : \A j \in labels : j <= i
    IN  IF spawns = {} \/ as1 = as THEN as
        ELSE IF labels = {} THEN as1
        ELSE [as1 EXCEPT ![Len(as1)].label = l[last].params.NewActorLabel.v]


\* dict.get(k, d)
GetD(p, k, d) == IF k \in DOMAIN p THEN p[k] ELSE d

\* unreal_actors.spawn_actor_base, lines 40-50: the location and the rotation
\* go with the spawn when the input has them.
spawn_params(actor_class, transform) ==
    ("ActorClass" :> actor_class)
    @@ (IF "location" \in DOMAIN transform THEN ("Location" :> transform["location"]) ELSE <<>>)
    @@ (IF "rotation" \in DOMAIN transform THEN ("Rotation" :> transform["rotation"]) ELSE <<>>)

\* unreal_actors.spawn_actor_base.  c is the global before the call, l the
\* round trips of the caller so far.  Answers the new actor's path, or <<>>
\* (None) when the spawn gave none or anything raised.
spawn_actor_base(c, l, orc, as, actor_class, params) ==
    LET transform == format_transform_params(params)
        name == get_common_actor_name(params, PyStr(StrNewActor))
    IN  Let(get_unreal_connection_C(c, orc, l), LAMBDA g :
        IF g.raised \/ transform.kind = "raise" THEN [g |-> g, log |-> g.log, path |-> <<>>]
        ELSE Let(send_command(g.log, orc, EditorLevelLibrary, "SpawnActorFromClass", spawn_params(actor_class, transform.d)), LAMBDA l1 :
        LET actor_path == IF Last(l1).out = "ok" THEN SpawnedPath(as, actor_class) ELSE <<>>
        IN  IF Raised(l1) \/ actor_path = <<>> THEN [g |-> g, log |-> l1, path |-> <<>>]
        ELSE Let(send_command(l1, orc, Actor(actor_path), "SetActorLabel", [NewActorLabel |-> name]), LAMBDA l2 :
        IF Raised(l2) \/ "scale" \notin DOMAIN transform.d THEN [g |-> g, log |-> l2, path |-> IF Raised(l2) THEN <<>> ELSE actor_path]
        ELSE Let(send_command(l2, orc, Actor(actor_path), "SetActorScale3D", [NewScale3D |-> transform.d["scale"]]), LAMBDA l3 :
        [g |-> g, log |-> l3, path |-> IF Raised(l3) THEN <<>> ELSE actor_path]))))

CreateResult(g, l, kind, msg, name) == [conn |-> g, log |-> l, result |-> [kind |-> kind, msg |-> msg, name |-> name]]

\* unreal_actors.create_static_mesh_actor
create_static_mesh_actor_A(cn, as, params, orc) ==
    LET mesh_type_v == GetD(params, "mesh_type", PyStr(StrCUBE))
        mesh_type == Upper(mesh_type_v.v)
        explicit == Or(Get(params, "static_mesh_asset_path"), Get(params, "static_mesh"))
        mesh_path == IF Truthy(explicit) THEN explicit ELSE PyStr(BASIC_SHAPES[mesh_type])
        name == get_common_actor_name(params, PyStr(StrMy \o Capitalize(mesh_type)))
        material_override == Get(params, "material_override")
        color == Or(Get(params, "color"), Get(params, "material_color"))
    IN  Let(get_unreal_connection("A", cn, orc), LAMBDA g :
        IF g.raised \/ mesh_type_v.t # "str" THEN CreateResult(g, g.log, "error", "Error creating static mesh actor", PyNone)
        ELSE IF ~Truthy(explicit) /\ mesh_type \notin DOMAIN BASIC_SHAPES THEN CreateResult(g, g.log, "error", "Error: Unsupported mesh type. Supported types are: CUBE, SPHERE, CYLINDER, PLANE, CONE", PyNone)
        ELSE Let(spawn_actor_base(g.conn, g.log, orc, as, StaticMeshActorClass, params), LAMBDA sp :
        IF sp.path = <<>> THEN CreateResult(sp.g, sp.log, "error", "Error: Failed to spawn static mesh actor", name)
        ELSE Let(get_component_by_class(sp.log, orc, Spawned(as, StaticMeshActorClass), sp.path), LAMBDA c :
        IF c.path = <<>> THEN CreateResult(sp.g, c.log, "error", "Error: Failed to get StaticMeshComponent", name)
        ELSE Let(send_command(c.log, orc, Component(c.path), "SetStaticMesh", [NewMesh |-> mesh_path]), LAMBDA l1 :
        IF Raised(l1) THEN CreateResult(sp.g, l1, "error", "Error creating static mesh actor", name)
        ELSE Let(IF Truthy(material_override) THEN send_command(l1, orc, Component(c.path), "SetMaterial", [ElementIndex |-> 0, Material |-> material_override])
                 ELSE IF IsList3(color) THEN set_material_color(l1, orc, c.path, color, TRUE)
                 ELSE l1, LAMBDA l2 :
        IF Len(l2) > Len(l1) /\ Raised(l2) THEN CreateResult(sp.g, l2, "error", "Error creating static mesh actor", name)
        ELSE CreateResult(sp.g, l2, "ok", "Successfully created", name))))))

\* `{"X": v[0], "Y": v[1], "Z": v[2]}` of a list of three, else d three times.
xyz_param(v, d) == IF v.t = "list" /\ Len(v.v) >= 3 THEN [X |-> v.v[1], Y |-> v.v[2], Z |-> v.v[3]] ELSE [X |-> d, Y |-> d, Z |-> d]
rotation_param(v) == IF v.t = "list" /\ Len(v.v) >= 3 THEN [Pitch |-> v.v[1], Yaw |-> v.v[2], Roll |-> v.v[3]] ELSE [Pitch |-> PyInt(0), Yaw |-> PyInt(0), Roll |-> PyInt(0)]
Zero3 == PyList(<<PyInt(0), PyInt(0), PyInt(0)>>)
One3 == PyList(<<PyInt(1), PyInt(1), PyInt(1)>>)

\* The spawn of unreal_modeling.create_static_mesh_actor and of the server's
\* tool, and the component of the new actor.
spawn_with_component(l, orc, as, params) ==
    Let(send_command(l, orc, EditorLevelLibrary, "SpawnActorFromClass",
            [ActorClass |-> StaticMeshActorClass, Location |-> xyz_param(GetD(params, "location", Zero3), PyInt(0)), Rotation |-> rotation_param(GetD(params, "rotation", Zero3))]), LAMBDA l1 :
    LET actor_path == IF Last(l1).out = "ok" THEN SpawnedPath(as, StaticMeshActorClass) ELSE <<>>
    IN  IF Raised(l1) \/ actor_path = <<>> THEN [log |-> l1, actor |-> <<>>, component |-> <<>>]
        ELSE Let(send_command(l1, orc, Actor(actor_path), "GetComponentByClass", [ComponentClass |-> StaticMeshComponentClass]), LAMBDA l2 :
        [log |-> l2, actor |-> actor_path, component |-> IF Last(l2).out = "ok" THEN ComponentOf(Spawned(as, StaticMeshActorClass), actor_path) ELSE <<>>]))

\* The steps on the new actor, sent in order: the mesh, the scale (when
\* with_scale), the label.  The first that raises ends them.
mesh_scale_label(l, orc, sp, mesh_path, with_scale, scale_param, name) ==
    send_steps(l, orc, Actor(sp.actor),
        <<[fn |-> "SetStaticMesh", params |-> [NewMesh |-> mesh_path], on |-> Component(sp.component)]>>
        \o (IF with_scale THEN <<[fn |-> "SetActorScale3D", params |-> [NewScale3D |-> scale_param]]>> ELSE <<>>)
        \o <<[fn |-> "SetActorLabel", params |-> [NewActorLabel |-> name]]>>, 1)

\* unreal_modeling.create_static_mesh_actor
create_static_mesh_actor_M(cn, as, params, orc) ==
    LET explicit == Get(params, "static_mesh_asset_path")
        mesh_type_v == GetD(params, "mesh_type", PyStr(<<>>))
        mesh_type == Upper(mesh_type_v.v)
        mesh_path == IF Truthy(explicit) THEN explicit
                     ELSE IF mesh_type \in DOMAIN BASIC_SHAPES THEN PyStr(BASIC_SHAPES[mesh_type])
                     ELSE PyStr(BASIC_SHAPES[StrCUBE])
        name == Or(Get(params, "actor_label"), Or(Get(params, "name"), PyStr(StrNewMesh)))
        scale == GetD(params, "scale", One3)
        material_override == Get(params, "material_override")
        material_color == Or(Get(params, "material_color"), Get(params, "color"))
    IN  Let(get_unreal_connection("M", cn, orc), LAMBDA g :
        IF g.raised \/ mesh_type_v.t # "str" THEN CreateResult(g, g.log, "error", "Error creating static mesh actor", PyNone)
        ELSE Let(spawn_with_component(g.log, orc, as, params), LAMBDA sp :
        IF Raised(sp.log) THEN CreateResult(g, sp.log, "error", "Error creating static mesh actor", name)
        ELSE IF sp.actor = <<>> THEN CreateResult(g, sp.log, "error", "Error: Failed to spawn actor", name)
        ELSE IF sp.component = <<>> THEN CreateResult(g, sp.log, "error", "Error: Failed to get StaticMeshComponent", name)
        ELSE Let(mesh_scale_label(sp.log, orc, sp, mesh_path, scale.t = "list" /\ Len(scale.v) >= 3, xyz_param(scale, PyInt(1)), name), LAMBDA l5 :
        IF Raised(l5) THEN CreateResult(g, l5, "error", "Error creating static mesh actor", name)
        ELSE Let(IF Truthy(material_override) THEN send_command(l5, orc, Component(sp.component), "SetMaterial", [ElementIndex |-> 0, Material |-> material_override])
                 ELSE IF IsList3(material_color) THEN set_material_color(l5, orc, sp.component, material_color, FALSE)
                 ELSE l5, LAMBDA l6 :
        IF Raised(l6) THEN CreateResult(g, l6, "error", "Error creating static mesh actor", name)
        ELSE CreateResult(g, l6, "ok", "Successfully created", name)))))

\* The create_static_mesh_actor tool of unreal_mcp_server.py: the mesh comes
\* from mesh_map alone, and only the colour steps have a try of their own.
create_static_mesh_actor_S(cn, as, params, orc) ==
    LET mesh_type_v == GetD(params, "mesh_type", PyStr(StrCUBE))
        mesh_type == Upper(mesh_type_v.v)
        name == Or(Get(params, "actor_label"), Or(Get(params, "name"), PyStr(StrMy \o Capitalize(mesh_type))))
        color == Get(params, "color")
    IN  Let(get_unreal_connection("S", cn, orc), LAMBDA g :
        IF g.raised \/ mesh_type_v.t # "str" THEN CreateResult(g, g.log, "error", "Error creating static mesh actor", PyNone)
        ELSE IF mesh_type \notin DOMAIN BASIC_SHAPES THEN CreateResult(g, g.log, "error", "Error: Unsupported mesh type. Supported types are: CUBE, SPHERE, CYLINDER, PLANE, CONE", PyNone)
        ELSE Let(spawn_with_component(g.log, orc, as, params), LAMBDA sp :
        IF Raised(sp.log) THEN CreateResult(g, sp.log, "error", "Error creating mesh", name)
        ELSE IF sp.actor = <<>> THEN CreateResult(g, sp.log, "error", "Error: Failed to spawn actor", name)
        ELSE IF sp.component = <<>> THEN CreateResult(g, sp.log, "error", "Error: Failed to get StaticMeshComponent", name)
        ELSE Let(mesh_scale_label(sp.log, orc, sp, PyStr(BASIC_SHAPES[mesh_type]), TRUE, xyz_param(GetD(params, "scale", One3), PyInt(1)), name), LAMBDA l5 :
        IF Raised(l5) THEN CreateResult(g, l5, "error", "Error creating mesh", name)
        ELSE CreateResult(g, IF IsList3(color) THEN set_material_color(l5, orc, sp.component, color, FALSE) ELSE l5, "ok", "Successfully created", name))))

create_static_mesh_actor(impl, cn, as, params, orc) ==
    CASE impl = "A" -> create_static_mesh_actor_A(cn, as, params, orc)
      [] impl = "M" -> create_static_mesh_actor_M(cn, as, params, orc)
      [] impl = "S" -> create_static_mesh_actor_S(cn, as, params, orc)

\* unreal_actors.spawn_actor_from_blueprint
spawn_actor_from_blueprint(cn, as, params, orc) ==
    LET actor_class == Or(Get(params, "actor_class"), Get(params, "class"))
        missing == validate_required_params(params, {"actor_class"})
        name == get_common_actor_name(params, PyStr(StrBlueprintActor))
    IN  IF missing # {} THEN CreateResult([conn |-> cn.C], <<>>, "error", "Missing required parameters", PyNone)
        ELSE Let(spawn_actor_base(cn.C, <<>>, orc, as, actor_class, params), LAMBDA sp :
        IF sp.path = <<>> THEN CreateResult(sp.g, sp.log, "error", "Error: Failed to spawn actor from blueprint class", name)
        ELSE CreateResult(sp.g, sp.log, "ok", "Successfully created", name))

-----------------------------------------------------------------------------
(* The create operations on their own. *)

StrBenchPath == <<"/","G","a","m","e","/","M","e","s","h","e","s","/","S","M","_","B","e","n","c","h">>
StrMaterialPath == <<"/","G","a","m","e","/","M","a","t","e","r","i","a","l","s","/","M","_","R","e","d">>
StrLampClass == <<"/","G","a","m","e","/","B","P","_","L","a","m","p",".","B","P","_","L","a","m","p","_","C">>
MeshCube == ("mesh_type" :> PyStr(<<"c","u","b","e">>))

\* What create_static_mesh_actor is asked: a mesh name of the table in either
\* case, one outside it or none, with and without an explicit asset path;
\* and a cube with the other parameters.
CreateInputs ==
    WithField({<<>>, MeshCube, ("mesh_type" :> PyStr(<<"S","p","h","e","r","e">>)), ("mesh_type" :> PyStr(<<"p","y","r","a","m","i","d">>))}, "static_mesh_asset_path", {PyStr(StrBenchPath)})
    \cup {MeshCube @@ p : p \in {("name" :> PyStr(LabelA)), ("scale" :> Vec123), ("color" :> Red), ("material_override" :> PyStr(StrMaterialPath)),
                                 ("location" :> Vec123) @@ ("rotation" :> Vec123), ("location" :> Vec12),
                                 ("actor_label" :> PyStr(LabelB)) @@ ("scale" :> Vec123) @@ ("color" :> Red),
                                 ("scale" :> PyList(<<PyStr(<<"a">>), PyInt(1), PyInt(1)>>)),
                                 \* a colour with an alpha of its own
                                 ("color" :> PyList(<<PyFloat(1), PyFloat(0), PyFloat(0), PyFloat(0)>>)) }}
    \cup {("mesh_type" :> PyInt(5)), ("static_mesh" :> PyStr(StrBenchPath))}

BlueprintInputs ==
    WithField(WithField({("actor_class" :> PyStr(StrLampClass))}, "name", {PyStr(LabelA)}), "scale", {Vec123})
    \cup {<<>>, ("class" :> PyStr(StrLampClass)), ("actor_class" :> PyInt(5))}

CreateStaticMeshActor(impl) ==
    /\ pc = "idle" /\ Len(actors) < MaxActors
    /\ \E params \in CreateInputs :
         \E orc \in Oracles(Calls(create_static_mesh_actor(impl, conn, actors, params, NoFault))) :
           \E r \in {create_static_mesh_actor(impl, conn, actors, params, orc)} :
               /\ conn' = ConnAfter(impl, conn, r.conn)
               /\ log' = r.log
               /\ result' = r.result
               /\ actors' = ApplyLog(actors, r.log)
               /\ op' = [tool |-> "create_static_mesh_actor", impl |-> impl, params |-> params]
    /\ pc' = "done"

SpawnActorFromBlueprint ==
    /\ pc = "idle" /\ Len(actors) < MaxActors
    /\ \E params \in BlueprintInputs :
         \E orc \in Oracles(Calls(spawn_actor_from_blueprint(conn, actors, params, NoFault))) :
           \E r \in {spawn_actor_from_blueprint(conn, actors, params, orc)} :
               /\ conn' = ConnAfter("A", conn, r.conn)
               /\ log' = r.log
               /\ result' = r.result
               /\ actors' = ApplyLog(actors, r.log)
               /\ op' = [tool |-> "spawn_actor_from_blueprint", impl |-> "A", params |-> params]
    /\ pc' = "done"

InitCreate == InitIdle /\ actors = <<>>
NextCreate ==
    \/ \E impl \in {"A", "M", "S"} : CreateStaticMeshActor(impl)
    \/ SpawnActorFromBlueprint
    \/ Return
SpecCreate == InitCreate /\ [][NextCreate]_vars


-----------------------------------------------------------------------------
(* get_available_assets (unreal_assets.py: "A"; unreal_modeling.py: "M"):   *)
(* the engine lists the asset paths, the code filters them.                  *)

EditorAssetLibrary == Static("/Script/EditorScriptingUtilities.Default__EditorAssetLibrary")
\* params.get('max_results', 20)
DefaultMaxResults == 20
StrAll == <<"A","l","l">>
StrGame == <<"/","G","a","m","e">>
StrStaticmesh == <<"s","t","a","t","i","c","m","e","s","h">>
StrMaterial == <<"m","a","t","e","r","i","a","l">>
StrBlueprint == <<"b","l","u","e","p","r","i","n","t">>
StrTexture == <<"t","e","x","t","u","r","e">>
StrSound == <<"s","o","u","n","d">>
StrParticle == <<"p","a","r","t","i","c","l","e">>
StrAnimation == <<"a","n","i","m","a","t","i","o","n">>

\* unreal_utils.ASSET_TYPE_IDENTIFIERS, and the same table inside
\* unreal_modeling.get_available_assets: what a path of a type carries.
ASSET_TYPE_IDENTIFIERS ==
    (StrBlueprint :> {<<"/","b","l","u","e","p","r","i","n","t">>, <<"/","b","l","u","e","p","r","i","n","t","s">>, <<"b","p","_">>, <<"_","b","p">>, <<".","b","p">>})
    @@ (StrStaticmesh :> {<<"/","m","e","s","h">>, <<"/","m","e","s","h","e","s">>, <<"/","s","t","a","t","i","c","m","e","s","h">>, <<"/","s","t","a","t","i","c","m","e","s","h","e","s">>, <<"s","m","_">>, <<"_","s","m">>, <<".","s","m">>})
    @@ (StrMaterial :> {<<"/","m","a","t","e","r","i","a","l">>, <<"/","m","a","t","e","r","i","a","l","s">>, <<"m","a","t","_">>, <<"_","m","a","t">>, <<".","m","a","t">>, <<"m","_">>})
    @@ (StrTexture :> {<<"/","t","e","x","t","u","r","e">>, <<"/","t","e","x","t","u","r","e","s">>, <<"t","_">>, <<"_","t">>, <<".","t">>})
    @@ (StrSound :> {<<"/","s","o","u","n","d">>, <<"/","s","o","u","n","d","s">>, <<"/","a","u","d","i","o">>, <<"s","_">>, <<"_","s">>, <<".","s">>})
    @@ (StrParticle :> {<<"/","f","x">>, <<"/","e","f","f","e","c","t">>, <<"/","e","f","f","e","c","t","s">>, <<"/","p","a","r","t","i","c","l","e">>, <<"/","p","a","r","t","i","c","l","e","s">>, <<"f","x","_">>, <<"p","_">>, <<"_","p">>})
    @@ (StrAnimation :> {<<"/","a","n","i","m">>, <<"/","a","n","i","m","a","t","i","o","n">>, <<"/","a","n","i","m","a","t","i","o","n","s">>, <<"a","_">>, <<"_","a">>, <<".","a">>})

\* The two tests on one path: asset_type is lower case already.
asset_type_match(asset_path, asset_type) ==
    ~(asset_type # Lower(StrAll) /\ asset_type \in DOMAIN ASSET_TYPE_IDENTIFIERS)
    \/ \E identifier \in ASSET_TYPE_IDENTIFIERS[asset_type] : Contains(Lower(asset_path), identifier)
search_term_match(asset_path, search_term) ==
    ~Truthy(search_term) \/ Contains(Lower(asset_path), Lower(search_term.v))

\* The filter loop.  An empty path is passed over before anything else; the
\* count is compared with max_results after every other path, kept or not.
\* Answers the paths kept, and whether the comparison raised (max_results
\* is no number).
RECURSIVE filter_assets(_, _, _, _, _, _)
filter_assets(assets, asset_type, search_term, max_results, i, filtered_assets) ==
    IF i > Len(assets) THEN [assets |-> filtered_assets, raised |-> FALSE]
    ELSE IF assets[i] = <<>> THEN filter_assets(assets, asset_type, search_term, max_results, i + 1, filtered_assets)
    ELSE IF search_term.t \notin {"none", "str"} /\ Truthy(search_term) THEN [assets |-> filtered_assets, raised |-> TRUE]
    ELSE Let(IF asset_type_match(assets[i], asset_type) /\ search_term_match(assets[i], search_term)
             THEN Append(filtered_assets, assets[i]) ELSE filtered_assets, LAMBDA kept :
         IF ~IsNumber(max_results) THEN [assets |-> kept, raised |-> TRUE]
         ELSE IF Len(kept) >= max_results.v THEN [assets |-> kept, raised |-> FALSE]
         ELSE filter_assets(assets, asset_type, search_term, max_results, i + 1, kept))

AssetsResult(g, l, kind, asset_type, filtered_assets) ==
    [conn |-> g, log |-> l, result |-> [kind |-> kind, asset_type |-> asset_type, total_found |-> Len(filtered_assets), assets |-> filtered_assets]]

\* One attempt: the listing call `fn` and the filter over what it answered.
\* raised: the call or the filter raised.
list_and_filter(l, orc, listing, fn, params, asset_type) ==
    Let(send_command(l, orc, EditorAssetLibrary, fn,
            [DirectoryPath |-> GetD(params, "search_path", PyStr(StrGame)), Recursive |-> GetD(params, "recursive", PyBool(TRUE)), IncludeFolder |-> TRUE]), LAMBDA l1 :
    IF Raised(l1) THEN [log |-> l1, raised |-> TRUE, assets |-> <<>>]
    ELSE Let(filter_assets(IF Last(l1).out = "empty" THEN <<>> ELSE listing, asset_type,
                 GetD(params, "search_term", PyStr(<<>>)), GetD(params, "max_results", PyInt(DefaultMaxResults)), 1, <<>>), LAMBDA f :
         [log |-> l1, raised |-> f.raised, assets |-> f.assets]))

\* What an attempt raised: the exception of its round trip, or the one of its
\* filter over a max_results or a search_term of the wrong type.
attempt_error(attempt) == IF Raised(attempt.log) THEN "RequestException" ELSE "TypeError"

\* The error text that names only the second failure.
alternative_failed_alone(g, l, e, e2) ==
    [conn |-> g, log |-> l, result |-> [kind |-> "error", asset_type |-> <<>>, total_found |-> 0, assets |-> <<>>, failures |-> <<e2>>]]
\* `return f"Error listing assets: {str(e)}. Alternative approach also failed:
\* {str(e2)}"`
alternative_also_failed(g, l, e, e2) ==
    [conn |-> g, log |-> l, result |-> [kind |-> "error", asset_type |-> <<>>, total_found |-> 0, assets |-> <<>>, failures |-> <<e, e2>>]]

\* get_available_assets: `listing` is what the engine holds under the search
\* path.  ListAssets first; when that attempt raises, GetAssetsByPath.
get_available_assets(impl, cn, listing, params, orc) ==
    LET asset_type_v == GetD(params, "asset_type", PyStr(StrAll))
        asset_type == Lower(asset_type_v.v)
        shown == IF asset_type # Lower(StrAll) THEN Capitalize(asset_type) ELSE StrAll
    IN  Let(get_unreal_connection(impl, cn, orc), LAMBDA g :
        IF g.raised \/ asset_type_v.t # "str" THEN AssetsResult(g, g.log, "error", <<>>, <<>>)
        ELSE Let(list_and_filter(g.log, orc, listing, "ListAssets", params, asset_type), LAMBDA first :
        IF ~first.raised THEN AssetsResult(g, first.log, "json", shown, first.assets)
        ELSE Let(list_and_filter(first.log, orc, listing, "GetAssetsByPath", params, asset_type), LAMBDA second :
        IF ~second.raised THEN AssetsResult(g, second.log, "json", shown, second.assets)
        ELSE alternative_also_failed(g, second.log, attempt_error(first), attempt_error(second)))))

-----------------------------------------------------------------------------
(* The asset queries on their own. *)

StrLampPath == <<"/","G","a","m","e","/","B","l","u","e","p","r","i","n","t","s","/","B","P","_","L","a","m","p">>
StrRockPath == <<"/","G","a","m","e","/","P","r","o","p","s","/","R","o","c","k">>
\* What the engine may hold under the search path.
Listings ==
    { <<>>, <<StrBenchPath>>, <<StrMaterialPath, StrBenchPath>>, <<StrBenchPath, StrLampPath, StrRockPath>>,
      <<<<>>, StrRockPath, StrMaterialPath>>, <<StrRockPath, StrBenchPath, StrMaterialPath, StrLampPath>> }

\* What get_available_assets is asked: a type in either case, one outside
\* the table or none; a search term; a limit.
AssetInputs ==
    WithField(WithField(WithField({<<>>},
        "asset_type", {PyStr(StrStaticmesh), PyStr(StrMaterial), PyStr(<<"M","a","t","e","r","i","a","l">>), PyStr(<<"l","e","v","e","l">>), PyStr(StrAll)}),
        "search_term", {PyStr(<<"B","E","N","C","H">>), PyStr(<<>>)}),
        "max_results", {PyInt(0), PyInt(1), PyInt(2)})
    \cup {("asset_type" :> PyInt(5)), ("max_results" :> PyStr(<<"2">>)), ("search_term" :> PyInt(5))}

GetAvailableAssets(impl) ==
    /\ pc = "idle"
    /\ \E params \in AssetInputs, listing \in Listings :
         \E orc \in Oracles(Calls(get_available_assets(impl, conn, listing, params, NoFault))) :
           \E r \in {get_available_assets(impl, conn, listing, params, orc)} :
               /\ conn' = ConnAfter(impl, conn, r.conn)
               /\ log' = r.log
               /\ result' = r.result
               /\ op' = [tool |-> "get_available_assets", impl |-> impl, params |-> params, listing |-> listing]
    /\ pc' = "done"
    /\ UNCHANGED actors

InitAssets == InitIdle /\ actors = <<>>
NextAssets ==
    \/ \E impl \in {"A", "M"} : GetAvailableAssets(impl)
    \/ Return
SpecAssets == InitAssets /\ [][NextAssets]_vars

-----------------------------------------------------------------------------
(* The tool surface of unreal_mcp_server.py: the functions carrying         *)
(* @mcp.tool().  A request names a tool; a name no function carries never    *)
(* reaches the code of the repository.                                       *)

RegisteredTools == {"get_level_info", "create_static_mesh_actor", "modify_actor", "create_composite_mesh", "get_actor_info"}

\* A request for a tool that is not registered: no handler runs, no round
\* trip is made, the caller is told the tool is unknown.
UnknownTool(name) ==
    /\ pc = "idle" /\ name \notin RegisteredTools
    /\ \E params \in {("actor_label" :> PyStr(lb)) : lb \in {LabelA, LabelB, StrLight}} :
         op' = [tool |-> name, impl |-> "S", params |-> params]
    /\ log' = <<>>
    /\ result' = [kind |-> "error", msg |-> "Unknown tool"]
    /\ pc' = "done"
    /\ UNCHANGED <<conn, actors>>

\* The names the callers ask for that no function carries.
UnregisteredTools == {"delete_actor"}

\* The requests the server gets: get_level_info is run by the server's own
\* function, modify_actor by unreal_modeling's; delete_actor by none.
NextTools ==
    \/ GetLevelInfo("S")
    \/ ModifyActor("M")
    \/ \E name \in UnregisteredTools : UnknownTool(name)
    \/ Return
SpecTools == InitModify /\ [][NextTools]_vars

-----------------------------------------------------------------------------
(* Python's string methods the parameter parsers use. *)

IsSpace(c) == c \in {" ", "\t"}
\* The n-th smallest (from 1) of a set of numbers.
Nth(S, n) == CHOOSE x \in S : Cardinality({y \in S : y < x}) = n - 1
\* str.strip()
RECURSIVE LStrip(_)
LStrip(s) == IF s # <<>> /\ IsSpace(s[1]) THEN LStrip(Tail(s)) ELSE s
RECURSIVE RStrip(_)
RStrip(s) == IF s # <<>> /\ IsSpace(s[Len(s)]) THEN RStrip(SubSeq(s, 1, Len(s) - 1)) ELSE s
Strip(s) == RStrip(LStrip(s))
\* The places of a set of numbers in rising order.
Sorted(S) == [n \in 1..Cardinality(S) |-> Nth(S, n)]
\* str.split(): the maximal runs without white space, in order.
SplitWsAt(s, starts, ends) == [n \in 1..Len(starts) |-> SubSeq(s, starts[n], ends[n])]
SplitWs(s) ==
    SplitWsAt(s, Sorted({i \in 1..Len(s) : ~IsSpace(s[i]) /\ (i = 1 \/ IsSpace(s[i - 1]))}),
                 Sorted({i \in 1..Len(s) : ~IsSpace(s[i]) /\ (i = Len(s) \/ IsSpace(s[i + 1]))}))
\* str.find(ch) from 1: the first place of ch in s, 0 for none.
FindIn(s, at) == IF at = {} THEN 0 ELSE CHOOSE i \in at : \A j \in at : i <= j
Find(s, ch) == FindIn(s, {i \in 1..Len(s) : s[i] = ch})
\* str.split(ch): the pieces between the occurrences of ch, empty ones too.
SplitOn(s, ch) ==
    LET at == {i \in 1..Len(s) : s[i] = ch}
        from(n) == IF n = 1 THEN 1 ELSE Nth(at, n - 1) + 1
        to(n) == IF n = Cardinality(at) + 1 THEN Len(s) ELSE Nth(at, n) - 1
    IN  [n \in 1..(Cardinality(at) + 1) |-> SubSeq(s, from(n), to(n))]
\* str.split(ch, 1)[1] of a string that has a ch.
AfterFirst(s, ch) == SubSeq(s, Find(s, ch) + 1, Len(s))
\* str.replace(ch, '', 1)
RemoveFirst(s, ch) == IF Find(s, ch) = 0 THEN s ELSE BeforeFirst(s, ch) \o AfterFirst(s, ch)
\* str.isdigit()
IsDigit(s) == s # <<>> /\ \A i \in 1..Len(s) : \E n \in 1..10 : Digit[n] = s[i]
DigitValue(c) == (CHOOSE n \in 1..10 : Digit[n] = c) - 1
\* int(s) of a string of digits; 0 for no digit at all.
RECURSIVE IntOfDigits(_)
IntOfDigits(s) == IF s = <<>> THEN 0 ELSE 10 * IntOfDigits(SubSeq(s, 1, Len(s) - 1)) + DigitValue(s[Len(s)])
RECURSIVE Pow10(_)
Pow10(n) == IF n = 0 THEN 1 ELSE 10 * Pow10(n - 1)

\* A float that is no whole number: m / d, d a power of ten, m not a multiple
\* of ten.
PyDec(m, d) == [t |-> "float", v |-> m, d |-> d]
\* The float of a sign, the digits before the point and the digits after it.
MkFloat(sign, whole, frac) ==
    LET zeros == {i \in 1..Len(frac) : \A j \in i..Len(frac) : frac[j] = "0"}
        kept == IF zeros = {} THEN frac ELSE SubSeq(frac, 1, Nth(zeros, 1) - 1)
    IN  IF kept = <<>> THEN PyFloat(sign * IntOfDigits(whole))
        ELSE PyDec(sign * IntOfDigits(whole \o kept), Pow10(Len(kept)))

Returned(x) == [kind |-> "ok", v |-> x]
Raise(exc) == [kind |-> "raise", exc |-> exc]

\* float(s) of a string: an optional sign, digits with at most one point and
\* at least one digit; ValueError for any other string of signs, digits,
\* points and letters of a word.
float_of_str(s) ==
    LET signed == s # <<>> /\ s[1] \in {"+", "-"}
        body == IF signed THEN SubSeq(s, 2, Len(s)) ELSE s
        parts == SplitOn(body, ".")
    IN  IF Len(parts) <= 2 /\ IsDigit(RemoveFirst(body, "."))
        THEN Returned(MkFloat(IF signed /\ s[1] = "-" THEN -1 ELSE 1, parts[1], IF Len(parts) = 2 THEN parts[2] ELSE <<>>))
        ELSE Raise("ValueError")

\* `[float(x) for x in value.split(',')]`
float_list(value) ==
    LET parts == SplitOn(value, ",")
        floats == [i \in 1..Len(parts) |-> float_of_str(parts[i])]
    IN  IF \E i \in 1..Len(parts) : floats[i].kind = "raise" THEN Raise("ValueError")
        ELSE Returned(PyList([i \in 1..Len(parts) |-> floats[i].v]))

-----------------------------------------------------------------------------
(* The parameter parsers: unreal_utils.parse_kwargs ("A": unreal_actors and  *)
(* unreal_assets call it), the parse_kwargs of unreal_modeling ("M") and of  *)
(* composite_meshes ("K"), and the lines the create_static_mesh_actor tool   *)
(* of unreal_mcp_server carries inline ("S").                                *)

\* The keys whose comma-separated value is read as a vector.
vector_keys(impl) ==
    CASE impl = "A" -> {<<"l","o","c","a","t","i","o","n">>, <<"r","o","t","a","t","i","o","n">>, <<"s","c","a","l","e">>, <<"c","o","l","o","r">>, <<"m","a","t","e","r","i","a","l","_","c","o","l","o","r">>}
      [] impl \in {"M", "K"} -> {<<"l","o","c","a","t","i","o","n">>, <<"r","o","t","a","t","i","o","n">>, <<"s","c","a","l","e">>, <<"m","a","t","e","r","i","a","l","_","c","o","l","o","r">>}
      [] impl = "S" -> {<<"l","o","c","a","t","i","o","n">>, <<"r","o","t","a","t","i","o","n">>, <<"s","c","a","l","e">>, <<"c","o","l","o","r">>}

\* unreal_utils.parse_value, and the same if/elif chain of the other parsers.
parse_value(impl, key, value) ==
    IF Contains(value, <<",">>) /\ key \in vector_keys(impl) THEN float_list(value)
    ELSE IF Lower(value) = <<"t","r","u","e">> THEN Returned(PyBool(TRUE))
    ELSE IF Lower(value) = <<"f","a","l","s","e">> THEN Returned(PyBool(FALSE))
    ELSE IF IsDigit(value) THEN Returned(PyInt(IntOfDigits(value)))
    ELSE IF IsDigit(RemoveFirst(value, ".")) THEN float_of_str(value)
    ELSE Returned(PyStr(value))

\* A parsed blob: a dict (a function from keys to values), another JSON value,
\* or the exception raised.
Dict(d) == [kind |-> "dict", d |-> d]
Value(x) == [kind |-> "value", v |-> x]

\* kwargs[key] = value
DictSet(kwargs, key, value) == [k \in DOMAIN kwargs \cup {key} |-> IF k = key THEN value ELSE kwargs[k]]

\* The loop over the space-separated parts of a string: a part without '='
\* adds nothing, a part is split at its first '=', a later part replaces an
\* earlier one of the same key.
RECURSIVE parse_parts(_, _, _, _)
parse_parts(impl, parts, i, kwargs) ==
    IF i > Len(parts) THEN Dict(kwargs)
    ELSE IF Find(parts[i], "=") = 0 THEN parse_parts(impl, parts, i + 1, kwargs)
    ELSE Let(parse_value(impl, BeforeFirst(parts[i], "="), AfterFirst(parts[i], "=")), LAMBDA value :
         IF value.kind = "raise" THEN value
         ELSE parse_parts(impl, parts, i + 1, DictSet(kwargs, BeforeFirst(parts[i], "="), value.v)))
parse_pairs(impl, s) == parse_parts(impl, SplitWs(s), 1, <<>>)

\* The JSON texts among the blobs, with what json.loads makes of each; every
\* other text of the model is no JSON (JSONDecodeError).
JSON_TEXTS ==
    (<<"{","\"","m","e","s","h","_","t","y","p","e","\"",":"," ","\"","s","p","h","e","r","e","\"","}">> :> Dict(<<"m","e","s","h","_","t","y","p","e">> :> PyStr(<<"s","p","h","e","r","e">>)))
    @@ (<<"{","\"","a","c","t","o","r","_","l","a","b","e","l","\"",":"," ","\"","A","\"",","," ","\"","l","o","c","a","t","i","o","n","\"",":"," ","[","1",","," ","2",","," ","3","]","}">> :> Dict((<<"a","c","t","o","r","_","l","a","b","e","l">> :> PyStr(<<"A">>)) @@ (<<"l","o","c","a","t","i","o","n">> :> PyList(<<PyInt(1), PyInt(2), PyInt(3)>>))))
    @@ (<<"{","\"","s","h","a","p","e","\"",":"," ","\"","W","A","L","L","\"","}">> :> Dict(<<"s","h","a","p","e">> :> PyStr(<<"W","A","L","L">>)))
    @@ (<<"{","}">> :> Dict(<<>>))
    @@ (<<"5">> :> Value(PyInt(5)))
json_loads(s) == IF Strip(s) \in DOMAIN JSON_TEXTS THEN JSON_TEXTS[Strip(s)] ELSE Raise("JSONDecodeError")

LooksLikeJson(s) == Let(Strip(s), LAMBDA stripped : stripped # <<>> /\ stripped[1] = "{" /\ Last(stripped) = "}")

\* A blob is a string (PyStr), a dict already ([t |-> "dict", v |-> d]) or None.
PyDict(d) == [t |-> "dict", v |-> d]
BlobTruthy(b) == CASE b.t = "none" -> FALSE [] b.t = "str" -> b.v # <<>> [] b.t = "dict" -> DOMAIN b.v # {}

\* unreal_utils.parse_kwargs
parse_kwargs_U(kwargs_str) ==
    IF ~BlobTruthy(kwargs_str) THEN Dict(<<>>)
    ELSE IF kwargs_str.t = "dict" THEN Dict(kwargs_str.v)
    ELSE IF LooksLikeJson(kwargs_str.v) /\ json_loads(kwargs_str.v).kind # "raise" THEN json_loads(kwargs_str.v)
    ELSE parse_pairs("A", kwargs_str.v)

\* unreal_modeling.parse_kwargs and composite_meshes.parse_kwargs: json.loads
\* is tried on every string, and what it returns is returned.
parse_kwargs_M(impl, kwargs_str) ==
    IF ~BlobTruthy(kwargs_str) THEN Dict(<<>>)
    ELSE IF kwargs_str.t = "dict" THEN Dict(kwargs_str.v)
    ELSE IF json_loads(kwargs_str.v).kind # "raise" THEN json_loads(kwargs_str.v)
    ELSE parse_pairs(impl, kwargs_str.v)

\* unreal_mcp_server.create_static_mesh_actor, lines 273-297: a string in
\* braces goes to json.loads, whose exception nothing here catches; None has
\* no strip().
parse_kwargs_S(kwargs) ==
    IF kwargs.t = "dict" THEN Dict(kwargs.v)
    ELSE IF kwargs.t = "none" THEN Raise("AttributeError")
    ELSE IF LooksLikeJson(kwargs.v) THEN json_loads(kwargs.v)
    ELSE parse_pairs("S", kwargs.v)

parse_kwargs(impl, kwargs_str) ==
    CASE impl = "A" -> parse_kwargs_U(kwargs_str)
      [] impl \in {"M", "K"} -> parse_kwargs_M(impl, kwargs_str)
      [] impl = "S" -> parse_kwargs_S(kwargs_str)

-----------------------------------------------------------------------------
(* The parsers on their own: the blob is drawn when the run starts. *)

\* key=value texts: vectors under each of the five keys, scalars of every
\* kind, tokens without '=' and with several, repeated keys, white space.
PairBlobs ==
    { <<>>, <<"l","o","c","a","t","i","o","n","=","1",",","2",",","3">>, <<"r","o","t","a","t","i","o","n","=","0",",","4","5",",","0">>, <<"s","c","a","l","e","=","1",".","5",",","2",",","0",".","2","5">>, <<"c","o","l","o","r","=","1",",","0",",","0">>, <<"m","a","t","e","r","i","a","l","_","c","o","l","o","r","=","0",".","5",",","0",".","5",",","1">>,
      <<"l","o","c","a","t","i","o","n","=","-","1","0","0",",","0",",","5","0">>, <<"l","o","c","a","t","i","o","n","=","1",",","a",",","3">>, <<"l","o","c","a","t","i","o","n","=","1",",",",","3">>, <<"l","o","c","a","t","i","o","n","=","1">>, <<"n","a","m","e","=","a",",","b">>,
      <<"k","e","y","=","4","2">>, <<"k","e","y","=","3",".","5">>, <<"k","e","y","=","f","o","o">>, <<"k","e","y","=","t","r","u","e">>, <<"k","e","y","=","F","A","L","S","E">>, <<"k","e","y","=","T","r","u","e">>, <<"k","e","y","=","0","0","7">>,
      <<"k","e","y","=","-","3",".","5">>, <<"k","e","y","=","-","4","2">>, <<"k","e","y","=","1",".","2",".","3">>, <<"k","e","y","=",".","5">>, <<"k","e","y","=","5",".">>, <<"k","e","y","=",".">>, <<"k","e","y","=">>,
      <<"a","=","b","=","c">>, <<"n","o","e","q","u","a","l","s">>, <<"=","5">>, <<"a","c","t","o","r","_","l","a","b","e","l","=","A"," "," ","l","o","c","a","t","i","o","n","=","1",",","2",",","3"," ","n","o","e","q">>, <<"k","e","y","=","1"," ","k","e","y","=","t","w","o">>,
      <<"s","h","a","p","e","=","t","o","w","e","r"," ","l","o","c","a","t","i","o","n","=","0",",","0",",","0"," ","s","i","z","e","=","1",",","1",",","1"," ","l","a","b","e","l","=","M","y","T","o","w","e","r">> }
\* Texts in braces that are no JSON.
MalformedJsonBlobs ==
    { <<"{","m","e","s","h","_","t","y","p","e","=","s","p","h","e","r","e","}">>, <<"{","\"","a","c","t","o","r","_","l","a","b","e","l","\"",":"," ","\"","A","\"",",","}">>, <<"{"," ","\"","m","e","s","h","_","t","y","p","e","\"",":"," ","s","p","h","e","r","e"," ","l","o","c","a","t","i","o","n","=","1",",","2",",","3"," ","}">>, <<" ","{","a","c","t","o","r","_","l","a","b","e","l","=","A"," ","s","c","a","l","e","=","2",",","2",",","2"," ","}"," ">> }
Blobs ==
    {PyStr(s) : s \in PairBlobs \cup MalformedJsonBlobs \cup DOMAIN JSON_TEXTS \cup {<<" ","{","\"","s","h","a","p","e","\"",":"," ","\"","W","A","L","L","\"","}"," ">>}}
    \cup {PyNone, PyDict(<<>>), PyDict(<<"l","o","c","a","t","i","o","n">> :> PyList(<<PyInt(1), PyInt(2), PyInt(3)>>))}

Parsers == {"A", "M", "K", "S"}

InitParse ==
    /\ conn = [C |-> "None", S |-> "None"] /\ actors = <<>>
    /\ pc = "idle" /\ log = <<>> /\ result = NoResult
    /\ op \in {[tool |-> "parse_kwargs", impl |-> p, blob |-> b] : p \in Parsers, b \in Blobs}

ParseKwargs ==
    /\ pc = "idle" /\ op.tool = "parse_kwargs"
    /\ result' = parse_kwargs(op.impl, op.blob)
    /\ pc' = "done"
    /\ UNCHANGED <<conn, actors, op, log>>

SpecParse == InitParse /\ [][ParseKwargs]_vars

-----------------------------------------------------------------------------
(* The recursive asset search: unreal_assets.search_assets_recursively ("A") *)
(* and unreal_modeling.search_all_subdirs ("M").                             *)

\* unreal_utils.COMMON_SUBDIRS, and the same list inside search_all_subdirs.
COMMON_SUBDIRS ==
    << <<>>, <<"/","B","l","u","e","p","r","i","n","t","s">>, <<"/","M","e","s","h","e","s">>, <<"/","S","t","a","t","i","c","M","e","s","h","e","s">>, <<"/","M","a","t","e","r","i","a","l","s">>, <<"/","T","e","x","t","u","r","e","s">>, <<"/","F","X">>, <<"/","A","u","d","i","o">>, <<"/","A","n","i","m","a","t","i","o","n","s">> >>

\* str(n) of a natural number, as an f-string writes it.
RECURSIVE str_of_nat(_)
str_of_nat(n) == IF n < 10 THEN <<Digit[n + 1]>> ELSE str_of_nat(n \div 10) \o <<Digit[(n % 10) + 1]>>

\* The keys the handlers read, as the parsers spell them.
KeyText ==
    [search_path |-> <<"s","e","a","r","c","h","_","p","a","t","h">>, asset_type |-> <<"a","s","s","e","t","_","t","y","p","e">>, search_term |-> <<"s","e","a","r","c","h","_","t","e","r","m">>,
     max_results |-> <<"m","a","x","_","r","e","s","u","l","t","s">>, recursive |-> <<"r","e","c","u","r","s","i","v","e">>]
\* A parsed mapping, as the handlers index it.
ParamsOf(d) == [k \in {key \in DOMAIN KeyText : KeyText[key] \in DOMAIN d} |-> d[KeyText[k]]]

\* The round trips of `orc` after the first n.
ShiftOracle(orc, n) == [err |-> {i - n : i \in {j \in orc.err : j > n}}, empty |-> {i - n : i \in {j \in orc.empty : j > n}}]

\* What the engine answers for a directory listed recursively: the assets of
\* the project below it, in the project's order.
ListingUnder(content, dir) ==
    SelectSeq(content, LAMBDA path : Len(path) > Len(dir) /\ SubSeq(path, 1, Len(dir) + 1) = dir \o <<"/">>)

\* The f-string of lines 203-204.
search_kwargs_str(base_path, subdir, asset_type, search_term, max_results) ==
    (IF Truthy(asset_type) THEN <<"a","s","s","e","t","_","t","y","p","e","=">> \o asset_type.v \o <<" ">> ELSE <<>>)
    \o <<"s","e","a","r","c","h","_","p","a","t","h","=">> \o base_path \o subdir \o <<" ">>
    \o (IF Truthy(search_term) THEN <<"s","e","a","r","c","h","_","t","e","r","m","=">> \o search_term.v \o <<" ">> ELSE <<>>)
    \o <<"m","a","x","_","r","e","s","u","l","t","s","=">> \o str_of_nat(max_results)

\* get_available_assets called with a text: the parser of the module, then
\* the handler.  A blob the parser raises on ends in the handler's except.
get_available_assets_str(impl, cn, content, kwargs_str, orc) ==
    Let(parse_kwargs(impl, PyStr(kwargs_str)), LAMBDA parsed :
    Let(get_unreal_connection(impl, cn, orc), LAMBDA g :
    IF parsed.kind # "dict" THEN AssetsResult(g, g.log, "error", <<>>, <<>>)
    ELSE Let(ParamsOf(parsed.d), LAMBDA params :
         get_available_assets(impl, cn,
             IF "search_path" \in DOMAIN params /\ params["search_path"].t = "str" THEN ListingUnder(content, params["search_path"].v) ELSE <<>>,
             params, orc))))

\* The loop of lines 201-217 from the i-th subdirectory on.  st carries the
\* globals, the round trips so far and all_assets.
RECURSIVE search_loop(_, _, _, _, _, _)
search_loop(impl, content, args, orc, i, st) ==
    IF i > Len(COMMON_SUBDIRS) THEN st
    ELSE Let(get_available_assets_str(impl, st.conn, content,
                 search_kwargs_str(args.base_path, COMMON_SUBDIRS[i], args.asset_type, args.search_term, args.max_results),
                 ShiftOracle(orc, Len(st.log))), LAMBDA r :
         search_loop(impl, content, args, orc, i + 1,
             [conn |-> ConnAfter(impl, st.conn, r.conn),
              log |-> st.log \o r.log,
              \* json.loads of an error text raises: the subdirectory is passed over
              all_assets |-> IF r.result.kind = "json" THEN st.all_assets \o r.result.assets ELSE st.all_assets]))

\* Lines 219-223: every path once, at its first place.
RECURSIVE unique(_, _, _)
unique(all_assets, i, unique_assets) ==
    IF i > Len(all_assets) THEN unique_assets
    ELSE unique(all_assets, i + 1,
            IF \E j \in 1..Len(unique_assets) : unique_assets[j] = all_assets[i] THEN unique_assets
            ELSE Append(unique_assets, all_assets[i]))

\* No cut at all.
Truncate_NoCut(s, n) == s
\* unique_assets[:max_results] of a natural max_results.
Truncate(s, n) == SubSeq(s, 1, IF n < Len(s) THEN n ELSE Len(s))

search_assets_recursively(impl, cn, content, args, orc) ==
    Let(search_loop(impl, content, args, orc, 1, [conn |-> cn, log |-> <<>>, all_assets |-> <<>>]), LAMBDA st :
    Let(unique(st.all_assets, 1, <<>>), LAMBDA unique_assets :
    [conn |-> st.conn, log |-> st.log,
     result |-> [kind |-> "json",
                 asset_type |-> IF Truthy(args.asset_type) THEN Capitalize(args.asset_type.v) ELSE StrAll,
                 total_found |-> Len(unique_assets),
                 assets |-> Truncate(unique_assets, args.max_results),
                 all_assets |-> st.all_assets]]))

-----------------------------------------------------------------------------
(* The recursive search on its own. *)

\* The largest max_results asked for.
MaxCap == 2
StrCratePath == <<"/","G","a","m","e","/","P","r","o","p","s","/","M","e","s","h","e","s","/","S","M","_","C","r","a","t","e">>
StrPropsBenchPath == <<"/","G","a","m","e","/","P","r","o","p","s","/","M","e","s","h","e","s","/","S","M","_","B","e","n","c","h">>
\* The assets of the project, in the engine's order.
Contents ==
    { <<StrBenchPath, StrMaterialPath, StrLampPath, StrRockPath>>,
      <<StrRockPath, StrCratePath, StrMaterialPath, StrPropsBenchPath, StrBenchPath>> }

\* A search without filter, by type, by term; in the project and in a
\* directory of it.
SearchInputs ==
    {[base_path |-> b, asset_type |-> f[1], search_term |-> f[2], max_results |-> n] :
        b \in {StrGame, <<"/","G","a","m","e","/","P","r","o","p","s">>},
        f \in {<<PyNone, PyNone>>, <<PyStr(StrStaticmesh), PyNone>>, <<PyNone, PyStr(<<"B","E","N","C","H">>)>>},
        n \in 0..MaxCap}

\* The last round trip a fault of the search begins at.
MaxFaultAt == 3
\* The oracles of a search of n round trips: those of its first MaxFaultAt
\* round trips, and the outages that last to the end.
SearchOracles(n) == Oracles(MaxFaultAt) \cup {[err |-> k..n, empty |-> {}] : k \in 1..MaxFaultAt}

SearchAssetsRecursively(impl) ==
    /\ pc = "idle"
    /\ \E args \in SearchInputs, content \in Contents :
         \E orc \in SearchOracles(Calls(search_assets_recursively(impl, conn, content, args, NoFault))) :
           \E r \in {search_assets_recursively(impl, conn, content, args, orc)} :
               /\ conn' = r.conn
               /\ log' = r.log
               /\ result' = r.result
               /\ op' = [tool |-> "search_assets_recursively", impl |-> impl, args |-> args, content |-> content]
    /\ pc' = "done"
    /\ UNCHANGED actors

InitSearch == InitIdle /\ actors = <<>>
NextSearch ==
    \/ \E impl \in {"A", "M"} : SearchAssetsRecursively(impl)
    \/ Return
SpecSearch == InitSearch /\ [][NextSearch]_vars

-----------------------------------------------------------------------------
(* Composite meshes: composite_meshes.create_composite_mesh ("K") and the    *)
(* create_composite_mesh tool of unreal_mcp_server ("S").                    *)

StrTower == <<"T","O","W","E","R">>
StrWall == <<"W","A","L","L">>
StrStairs == <<"S","T","A","I","R","S">>
StrTableChair == <<"T","A","B","L","E","_","C","H","A","I","R">>
StrHouse == <<"H","O","U","S","E">>
Recipes == {StrTower, StrWall, StrStairs, StrTableChair, StrHouse}

Part(label, mesh_type) == [actor_label |-> label, mesh_type |-> mesh_type]
\* `for i in range(n)`: the parts labelled prefix + str(i).
Numbered(prefix, n, mesh_type) == [i \in 1..n |-> Part(prefix \o str_of_nat(i - 1), mesh_type)]
\* One chair of the table_chair recipe: seat, back and four legs.
ChairParts(i) ==
    << Part(<<"_","C","h","a","i","r","_","S","e","a","t","_">> \o str_of_nat(i), <<"C","U","B","E">>), Part(<<"_","C","h","a","i","r","_","B","a","c","k","_">> \o str_of_nat(i), <<"C","U","B","E">>) >>
    \o Numbered(<<"_","C","h","a","i","r","_","L","e","g","_">> \o str_of_nat(i) \o <<"_">>, 4, <<"C","Y","L","I","N","D","E","R">>)

\* The create_static_mesh_actor calls a recipe lists, in order, each with the
\* label suffix and the mesh type it asks for.
RecipeParts(composition_type) ==
    CASE composition_type = StrTower ->
             << Part(<<"_","B","a","s","e">>, <<"C","U","B","E">>), Part(<<"_","B","o","d","y">>, <<"C","Y","L","I","N","D","E","R">>), Part(<<"_","T","o","p">>, <<"C","O","N","E">>) >>
      [] composition_type = StrWall ->
             << Part(<<"_","B","a","s","e">>, <<"C","U","B","E">>), Part(<<"_","W","a","l","l">>, <<"C","U","B","E">>) >> \o Numbered(<<"_","B","a","t","t","l","e","m","e","n","t","_">>, 10, <<"C","U","B","E">>)
      [] composition_type = StrStairs -> Numbered(<<"_","S","t","e","p","_">>, 10, <<"C","U","B","E">>)
      [] composition_type = StrTableChair ->
             << Part(<<"_","T","a","b","l","e","_","T","o","p">>, <<"C","U","B","E">>) >> \o Numbered(<<"_","T","a","b","l","e","_","L","e","g","_">>, 4, <<"C","Y","L","I","N","D","E","R">>)
             \o ChairParts(0) \o ChairParts(1) \o ChairParts(2) \o ChairParts(3)
      [] composition_type = StrHouse ->
             << Part(<<"_","F","o","u","n","d","a","t","i","o","n">>, <<"C","U","B","E">>), Part(<<"_","M","a","i","n","B","o","d","y">>, <<"C","U","B","E">>), Part(<<"_","R","o","o","f">>, <<"C","U","B","E">>), Part(<<"_","D","o","o","r">>, <<"C","U","B","E">>) >>
             \o Numbered(<<"_","W","i","n","d","o","w","_">>, 4, <<"C","U","B","E">>) \o << Part(<<"_","C","h","i","m","n","e","y">>, <<"C","U","B","E">>) >>

\* composite_meshes.get_unreal_connection: _get_unreal_connection is None
\* when the module is loaded and nothing in the repository calls its
\* register_connection_getter.
composite_get_unreal_connection == Raise("Exception")
\* The name create_static_mesh_actor inside composite_meshes: the module
\* neither defines nor imports it.
composite_create_static_mesh_actor(params) == Raise("NameError")

\* No recipe was called.
NoRecipe == <<>>
CompositeResult(kind, recipe, requested) == [kind |-> kind, recipe |-> recipe, requested |-> requested]

\* The calls of a recipe from the i-th on; the first one that raises ends
\* the recipe in its except.  requested: the primitives asked for so far.
RECURSIVE request_parts(_, _, _, _, _)
request_parts(composition_type, name, parts, i, requested) ==
    IF i > Len(parts) THEN CompositeResult("ok", composition_type, requested)
    ELSE IF composite_create_static_mesh_actor(parts[i]).kind = "raise" THEN CompositeResult("error", composition_type, requested)
    ELSE request_parts(composition_type, name, parts, i + 1, Append(requested, name \o parts[i].actor_label))

\* A recipe whose return pays no heed to what its calls did.
create_composite_unheeding(composition_type, name) == CompositeResult("ok", composition_type, <<>>)

\* create_tower_composite .. create_house_composite
create_composite(composition_type, name) ==
    IF composite_get_unreal_connection.kind = "raise" THEN CompositeResult("error", composition_type, <<>>)
    ELSE request_parts(composition_type, name, RecipeParts(composition_type), 1, <<>>)

GetT(d, key) == IF key \in DOMAIN d THEN d[key] ELSE PyNone
\* `[float(x) for x in value.split(',')]` of a string with a comma; any
\* other value stays.
vector_of(value) == IF value.t = "str" /\ Contains(value.v, <<",">>) THEN float_list(value.v) ELSE Returned(value)

\* composite_meshes.create_composite_mesh
create_composite_mesh_K(kwargs) ==
    Let(parse_kwargs("K", kwargs), LAMBDA parsed :
    IF parsed.kind # "dict" THEN CompositeResult("error", NoRecipe, <<>>)
    ELSE Let(parsed.d, LAMBDA params :
    \* line 88: upper() binds to the composition_type operand alone
    IF ~Truthy(GetT(params, <<"s","h","a","p","e">>)) /\ GetT(params, <<"c","o","m","p","o","s","i","t","i","o","n","_","t","y","p","e">>).t \notin {"none", "str"}
    THEN CompositeResult("error", NoRecipe, <<>>)
    ELSE Let(IF Truthy(GetT(params, <<"s","h","a","p","e">>)) THEN GetT(params, <<"s","h","a","p","e">>)
             ELSE IF <<"c","o","m","p","o","s","i","t","i","o","n","_","t","y","p","e">> \in DOMAIN params THEN PyStr(Upper(params[<<"c","o","m","p","o","s","i","t","i","o","n","_","t","y","p","e">>].v))
             ELSE PyStr(StrTower), LAMBDA composition_type :
    IF ~Truthy(GetT(params, <<"l","a","b","e","l">>)) /\ ~Truthy(GetT(params, <<"n","a","m","e">>)) /\ composition_type.t # "str"
    THEN CompositeResult("error", NoRecipe, <<>>)
    ELSE Let(Or(GetT(params, <<"l","a","b","e","l">>), Or(GetT(params, <<"n","a","m","e">>), IF composition_type.t = "str" THEN PyStr(Lower(composition_type.v)) ELSE PyNone)), LAMBDA name :
    IF vector_of(GetT(params, <<"l","o","c","a","t","i","o","n">>)).kind = "raise"
       \/ vector_of(Or(GetT(params, <<"s","c","a","l","e">>), GetT(params, <<"s","i","z","e">>))).kind = "raise"
    THEN CompositeResult("error", NoRecipe, <<>>)
    ELSE IF composition_type.t = "str" /\ composition_type.v \in Recipes
         \* the recipes format the name into the labels: a name of any type
         THEN create_composite(composition_type.v, IF name.t = "str" THEN name.v ELSE <<>>)
         ELSE CompositeResult("unknown", NoRecipe, <<>>)))))

\* unreal_mcp_server.create_composite_mesh: unreal_modeling has no attribute
\* create_composite_mesh (the lines 352-414 of unreal_modeling are the
\* unreachable end of modify_actor), so the call raises AttributeError.
modeling_create_composite_mesh(kwargs) == Raise("AttributeError")
create_composite_mesh_S(kwargs) ==
    IF modeling_create_composite_mesh(kwargs).kind = "raise" THEN CompositeResult("error", NoRecipe, <<>>)
    ELSE modeling_create_composite_mesh(kwargs).v

create_composite_mesh(impl, kwargs) ==
    IF impl = "K" THEN create_composite_mesh_K(kwargs) ELSE create_composite_mesh_S(kwargs)

-----------------------------------------------------------------------------
(* The composite tool on its own. *)

RecipeNames == Recipes \cup {Lower(r) : r \in Recipes} \cup {<<"c","a","s","t","l","e">>}
\* The documented call, each recipe by shape and by composition_type in
\* either case, alone and with the other parameters, and blobs naming none.
CompositeBlobs ==
    {PyStr(k \o r \o rest) : k \in {<<"s","h","a","p","e","=">>, <<"c","o","m","p","o","s","i","t","i","o","n","_","t","y","p","e","=">>}, r \in RecipeNames,
                             rest \in {<<>>, <<" ","l","o","c","a","t","i","o","n","=","1","0","0",",","0",",","5","0"," ","s","i","z","e","=","2",",","2",",","2">>, <<" ","l","a","b","e","l","=","M","y","T","o","w","e","r"," ","c","o","l","o","r","=","1",",","0",",","0">>}}
    \cup {PyStr(<<"s","h","a","p","e","=","t","o","w","e","r"," ","l","o","c","a","t","i","o","n","=","0",",","0",",","0"," ","s","i","z","e","=","1",",","1",",","1"," ","l","a","b","e","l","=","M","y","T","o","w","e","r">>), PyStr(<<>>), PyStr(<<"{","\"","s","h","a","p","e","\"",":"," ","\"","W","A","L","L","\"","}">>),
          PyStr(<<"s","h","a","p","e","=","5">>), PyStr(<<"c","o","m","p","o","s","i","t","i","o","n","_","t","y","p","e","=","5">>), PyStr(<<"s","h","a","p","e","=","W","A","L","L"," ","s","i","z","e","=","1",",","x",",","1">>), PyStr(<<"5">>), PyNone}

CreateCompositeMesh(impl) ==
    /\ pc = "idle"
    /\ \E kwargs \in CompositeBlobs :
         /\ result' = create_composite_mesh(impl, kwargs)
         /\ op' = [tool |-> "create_composite_mesh", impl |-> impl, blob |-> kwargs]
    /\ pc' = "done"
    /\ UNCHANGED <<conn, actors, log>>

InitComposite == InitIdle /\ actors = <<>>
NextComposite ==
    \/ \E impl \in {"K", "S"} : CreateCompositeMesh(impl)
    \/ Return
SpecComposite == InitComposite /\ [][NextComposite]_vars

-----------------------------------------------------------------------------
(* get_actor_info (unreal_actors.py: "A"; the tool of unreal_mcp_server.py:  *)
(* "S").                                                                     *)

\* Queries sent in order on `target`, each in its own try: one that fails is
\* noted in the report and the next is sent.
RECURSIVE query_steps(_, _, _, _, _)
query_steps(l, orc, target, steps, i) ==
    IF i > Len(steps) THEN l
    ELSE query_steps(send_command(l, orc, target, steps[i].fn, steps[i].params), orc, target, steps, i + 1)

\* What is asked of the actor: the server's tool asks for the scale under the
\* name SetActorScale3D and does not ask for the bounds.
ActorQueries(impl) ==
    <<[fn |-> "GetActorLocation", params |-> NoParams], [fn |-> "GetActorRotation", params |-> NoParams],
      [fn |-> IF impl = "S" THEN "SetActorScale3D" ELSE "GetActorScale3D", params |-> NoParams]>>
    \o (IF impl = "A" THEN <<[fn |-> "GetActorBounds", params |-> [bOnlyCollidingComponents |-> FALSE]]>> ELSE <<>>)
\* What is asked of the static mesh component.
ComponentQueries(impl) ==
    <<[fn |-> "GetStaticMesh", params |-> NoParams], [fn |-> "GetMaterial", params |-> [ElementIndex |-> 0]]>>
    \o (IF impl = "A" THEN <<[fn |-> "GetBounds", params |-> NoParams]>> ELSE <<>>)

\* The lookup: find_actor_by_label, which answers None whatever failed, and
\* the loop the server's tool carries inline, where a failed enumeration
\* leaves through the handler's except.
actor_info_lookup(impl, l, orc, as, actor_label) ==
    IF impl = "A" THEN Let(find_actor_by_label(l, orc, as, actor_label), LAMBDA found : [log |-> found.log, path |-> found.path, raised |-> FALSE])
    ELSE Let(send_command(l, orc, EditorActorSubsystem, "GetAllLevelActors", NoParams), LAMBDA l0 :
         IF Raised(l0) THEN [log |-> l0, path |-> <<>>, raised |-> TRUE]
         ELSE Let(find_actor_loop(l0, orc, as, IF Last(l0).out = "empty" THEN <<>> ELSE Paths(as), 1, actor_label), LAMBDA found :
              [log |-> found.log, path |-> found.path, raised |-> FALSE]))

\* The report: the path and label, the type read off the path, and the
\* queries of the log from `from` on that were answered.
ActorInfoResult(g, l, kind, path, actor_label, from) ==
    [conn |-> g, log |-> l,
     result |-> [kind |-> kind, path |-> path, label |-> actor_label,
                 type |-> IF kind = "json" THEN InferActorType(path) ELSE "none",
                 answered |-> IF kind = "json" THEN {l[i].fn : i \in {j \in (from + 1)..Len(l) : l[j].out # "err"}} ELSE {}]]

get_actor_info(impl, cn, as, actor_label, orc) ==
    Let(get_unreal_connection(impl, cn, orc), LAMBDA g :
    IF g.raised THEN ActorInfoResult(g, g.log, "error", <<>>, actor_label, 0)
    ELSE Let(actor_info_lookup(impl, g.log, orc, as, actor_label), LAMBDA found :
    IF found.raised THEN ActorInfoResult(g, found.log, "error", <<>>, actor_label, 0)
    ELSE IF found.path = <<>> THEN ActorInfoResult(g, found.log, "notfound", <<>>, actor_label, 0)
    ELSE Let(query_steps(found.log, orc, Actor(found.path), ActorQueries(impl), 1), LAMBDA l1 :
    IF ~Contains(found.path, StrStaticMeshActor) THEN ActorInfoResult(g, l1, "json", found.path, actor_label, Len(found.log))
    ELSE Let(get_component_by_class(l1, orc, as, found.path), LAMBDA c :
    IF c.path = <<>> THEN ActorInfoResult(g, c.log, "json", found.path, actor_label, Len(found.log))
    ELSE ActorInfoResult(g, query_steps(c.log, orc, Component(c.path), ComponentQueries(impl), 1), "json", found.path, actor_label, Len(found.log))))))

\* unreal_actors.spawn_static_mesh_actor_from_mesh: the mapping goes on to
\* create_static_mesh_actor with the mesh as static_mesh_asset_path.
spawn_static_mesh_actor_from_mesh(cn, as, params, orc) ==
    IF validate_required_params(params, {"static_mesh"}) # {}
    THEN CreateResult([conn |-> cn.C], <<>>, "error", "Missing required parameters", PyNone)
    ELSE create_static_mesh_actor("A", cn, as, ("static_mesh_asset_path" :> Or(Get(params, "static_mesh"), Get(params, "mesh"))) @@ params, orc)

-----------------------------------------------------------------------------
(* The handlers as they are called: with the text, mapping or None the       *)
(* caller passes, through the parser of the module, inside the handler's     *)
(* try block.                                                                *)

\* The keys the handlers read, as the parsers spell them.
HandlerKeyText ==
    KeyText @@
    [actor_label |-> <<"a","c","t","o","r","_","l","a","b","e","l">>, location |-> <<"l","o","c","a","t","i","o","n">>, rotation |-> <<"r","o","t","a","t","i","o","n">>, scale |-> <<"s","c","a","l","e">>, color |-> <<"c","o","l","o","r">>,
     material_color |-> <<"m","a","t","e","r","i","a","l","_","c","o","l","o","r">>, visible |-> <<"v","i","s","i","b","l","e">>, mesh_type |-> <<"m","e","s","h","_","t","y","p","e">>, name |-> <<"n","a","m","e">>, label |-> <<"l","a","b","e","l">>,
     material_override |-> <<"m","a","t","e","r","i","a","l","_","o","v","e","r","r","i","d","e">>, static_mesh |-> <<"s","t","a","t","i","c","_","m","e","s","h">>, static_mesh_asset_path |-> <<"s","t","a","t","i","c","_","m","e","s","h","_","a","s","s","e","t","_","p","a","t","h">>,
     mesh |-> <<"m","e","s","h">>, actor_class |-> <<"a","c","t","o","r","_","c","l","a","s","s">>, class |-> <<"c","l","a","s","s">>]
\* A parsed mapping, as the handlers index it.
HandlerParams(d) == [k \in {key \in DOMAIN HandlerKeyText : HandlerKeyText[key] \in DOMAIN d} |-> d[HandlerKeyText[k]]]

\* What the engine lists for the asset queries made through a blob.
EntryListing == <<StrBenchPath, StrMaterialPath, StrLampPath>>

\* The statements of a handler that follow its parser.
handler_body(tool, impl, cn, as, params, orc) ==
    CASE tool = "create_static_mesh_actor" -> create_static_mesh_actor(impl, cn, as, params, orc)
      [] tool = "spawn_actor_from_blueprint" -> spawn_actor_from_blueprint(cn, as, params, orc)
      [] tool = "spawn_static_mesh_actor_from_mesh" -> spawn_static_mesh_actor_from_mesh(cn, as, params, orc)
      [] tool = "modify_actor" -> modify_actor(impl, cn, as, params, orc)
      [] tool = "get_available_assets" -> get_available_assets(impl, cn, EntryListing, params, orc)

\* The handlers whose first statement is the parser; the others ask for the
\* connection first.
ParsesFirst == {"spawn_actor_from_blueprint", "spawn_static_mesh_actor_from_mesh"}

\* The try block of a handler: an exception of the getter or of the parser,
\* and the AttributeError of `params.get` on a parsed value that is no
\* mapping, leave it.
try_block(tool, impl, cn, as, kwargs, orc) ==
    Let(parse_kwargs(impl, kwargs), LAMBDA parsed :
    IF parsed.kind = "dict" THEN handler_body(tool, impl, cn, as, HandlerParams(parsed.d), orc)
    ELSE Let(IF tool \in ParsesFirst THEN [conn |-> cn[Global(impl)], handle |-> "none", raised |-> FALSE, log |-> <<>>]
             ELSE get_unreal_connection(impl, cn, orc), LAMBDA g :
         [conn |-> g, log |-> g.log,
          result |-> IF g.raised THEN Raise("Exception") ELSE IF parsed.kind = "raise" THEN parsed ELSE Raise("AttributeError")]))

\* No except clause: the exception goes on to the caller.
except_Nothing(r) == r
\* `except Exception as e: return f"Error ...: {str(e)}"`, the last clause of
\* every handler.
except_Exception(r) ==
    IF r.result.kind = "raise" THEN [r EXCEPT !.result = [kind |-> "error", msg |-> "Error", exc |-> r.result.exc]] ELSE r

entry_point(tool, impl, cn, as, kwargs, orc) == except_Exception(try_block(tool, impl, cn, as, kwargs, orc))

-----------------------------------------------------------------------------
(* Every entry point, called as the tool-calling layer calls it. *)

\* The blobs of a tool: well-formed texts, vectors with malformed numbers,
\* JSON, JSON that is no mapping, a mapping, the empty text and None.
EntryBlobs(tool) ==
    {PyStr(<<"5">>), PyStr(<<>>), PyNone, PyStr(<<"{","\"","a","c","t","o","r","_","l","a","b","e","l","\"",":"," ","\"","A","\"",","," ","\"","l","o","c","a","t","i","o","n","\"",":"," ","[","1",","," ","2",","," ","3","]","}">>), PyStr(<<"{","m","e","s","h","_","t","y","p","e","=","s","p","h","e","r","e","}">>)}
    \cup CASE tool = "modify_actor" ->
                {PyStr(<<"a","c","t","o","r","_","l","a","b","e","l","=","A"," ","l","o","c","a","t","i","o","n","=","1",",","2",",","3">>), PyStr(<<"a","c","t","o","r","_","l","a","b","e","l","=","A"," ","l","o","c","a","t","i","o","n","=","1",",","a",",","3">>), PyStr(<<"a","c","t","o","r","_","l","a","b","e","l","=","A"," ","s","c","a","l","e","=","2",",",",","2">>),
                 PyStr(<<"a","c","t","o","r","_","l","a","b","e","l","=","B"," ","v","i","s","i","b","l","e","=","f","a","l","s","e"," ","c","o","l","o","r","=","1",",","0",",","0">>), PyStr(<<"a","c","t","o","r","_","l","a","b","e","l","=","A"," ","r","o","t","a","t","i","o","n","=","0",",","4","5">>), PyStr(<<"l","o","c","a","t","i","o","n","=","1",",","2",",","3">>),
                 PyDict(<<"a","c","t","o","r","_","l","a","b","e","l">> :> PyStr(LabelA) @@ <<"s","c","a","l","e">> :> PyStr(<<"b","i","g">>))}
           [] tool = "create_static_mesh_actor" ->
                {PyStr(<<"m","e","s","h","_","t","y","p","e","=","c","u","b","e">>), PyStr(<<"m","e","s","h","_","t","y","p","e","=","c","u","b","e"," ","l","o","c","a","t","i","o","n","=","1",",","a",",","3">>), PyStr(<<"m","e","s","h","_","t","y","p","e","=","s","p","h","e","r","e"," ","n","a","m","e","=","A"," ","s","c","a","l","e","=","2",",","2",",","2"," ","c","o","l","o","r","=","1",",","0",",","0">>),
                 PyStr(<<"m","e","s","h","_","t","y","p","e","=","p","y","r","a","m","i","d">>), PyStr(<<"{","\"","m","e","s","h","_","t","y","p","e","\"",":"," ","\"","s","p","h","e","r","e","\"","}">>), PyStr(<<"m","e","s","h","_","t","y","p","e","=","c","u","b","e"," ","r","o","t","a","t","i","o","n","=","0",",",",","9","0">>),
                 PyDict(<<"m","e","s","h","_","t","y","p","e">> :> PyInt(5))}
           [] tool = "spawn_actor_from_blueprint" ->
                {PyStr(<<"a","c","t","o","r","_","c","l","a","s","s","=","/","G","a","m","e","/","B","P","_","L","a","m","p",".","B","P","_","L","a","m","p","_","C">>), PyStr(<<"a","c","t","o","r","_","c","l","a","s","s","=","/","G","a","m","e","/","B","P","_","L","a","m","p",".","B","P","_","L","a","m","p","_","C"," ","l","o","c","a","t","i","o","n","=","1",",","a",",","3">>), PyStr(<<"c","l","a","s","s","=","/","G","a","m","e","/","B","P","_","L","a","m","p",".","B","P","_","L","a","m","p","_","C">>)}
           [] tool = "spawn_static_mesh_actor_from_mesh" ->
                {PyStr(<<"s","t","a","t","i","c","_","m","e","s","h","=","/","G","a","m","e","/","M","e","s","h","e","s","/","S","M","_","B","e","n","c","h">>), PyStr(<<"s","t","a","t","i","c","_","m","e","s","h","=","/","G","a","m","e","/","M","e","s","h","e","s","/","S","M","_","B","e","n","c","h"," ","s","c","a","l","e","=","1",",","x",",","1">>), PyStr(<<"m","e","s","h","=","/","G","a","m","e","/","M","e","s","h","e","s","/","S","M","_","B","e","n","c","h">>)}
           [] tool = "get_available_assets" ->
                {PyStr(<<"a","s","s","e","t","_","t","y","p","e","=","s","t","a","t","i","c","m","e","s","h"," ","m","a","x","_","r","e","s","u","l","t","s","=","2">>), PyStr(<<"s","e","a","r","c","h","_","p","a","t","h","=","/","G","a","m","e"," ","s","e","a","r","c","h","_","t","e","r","m","=","b","e","n","c","h">>), PyStr(<<"m","a","x","_","r","e","s","u","l","t","s","=","t","w","o">>),
                 PyStr(<<"a","s","s","e","t","_","t","y","p","e","=","5">>), PyStr(<<"l","o","c","a","t","i","o","n","=","1",",","a",",","3">>)}

\* The tools that take a blob, with the modules that carry them.
BlobTools ==
    {<<t, i>> : t \in {"create_static_mesh_actor"}, i \in {"A", "M", "S"}}
    \cup {<<t, i>> : t \in {"modify_actor", "get_available_assets"}, i \in {"A", "M"}}
    \cup {<<t, "A">> : t \in ParsesFirst}

\* The entry points that create are called in a level of fewer actors than
\* this.
MaxEntryActors == 1

EntryPoint(tool, impl) ==
    /\ pc = "idle"
    /\ tool \notin {"modify_actor", "get_available_assets"} => Len(actors) < MaxEntryActors
    /\ \E kwargs \in EntryBlobs(tool) :
         \E orc \in Oracles(Calls(entry_point(tool, impl, conn, actors, kwargs, NoFault))) :
           \E r \in {entry_point(tool, impl, conn, actors, kwargs, orc)} :
               /\ conn' = ConnAfter(impl, conn, r.conn)
               /\ log' = r.log
               /\ result' = r.result
               /\ actors' = ApplyLog(actors, r.log)
               /\ op' = [tool |-> tool, impl |-> impl, blob |-> kwargs]
    /\ pc' = "done"

\* The labels get_actor_info is asked about.
InfoLabels == {LabelA, LabelB, StrLight}

GetActorInfo(impl) ==
    /\ pc = "idle"
    /\ \E actor_label \in InfoLabels :
         \E orc \in Oracles(Calls(get_actor_info(impl, conn, actors, PyStr(actor_label), NoFault))) :
           \E r \in {get_actor_info(impl, conn, actors, PyStr(actor_label), orc)} :
               /\ conn' = ConnAfter(impl, conn, r.conn)
               /\ log' = r.log
               /\ result' = r.result
               /\ op' = [tool |-> "get_actor_info", impl |-> impl, actor_label |-> actor_label]
    /\ pc' = "done"
    /\ UNCHANGED actors

\* The level the entry points are called in.
EntryScenes == {s \in ModifyScenes : Len(s) <= 1}

InitEntry == InitIdle /\ actors \in EntryScenes
NextEntry ==
    \/ \E ti \in BlobTools : EntryPoint(ti[1], ti[2])
    \/ \E impl \in {"A", "S"} : GetActorInfo(impl)
    \/ \E impl \in {"A", "S"} : GetLevelInfo(impl)
    \* the search reads nothing of the level: it is run in the empty one
    \/ \E impl \in {"A", "M"} : actors = <<>> /\ SearchAssetsRecursively(impl)
    \/ \E impl \in {"K", "S"} : CreateCompositeMesh(impl)
    \/ Return
SpecEntry == InitEntry /\ [][NextEntry]_vars


-----------------------------------------------------------------------------
\* ---- Claims ----

\* C1: get_unreal_connection returns a handle only when a liveness probe made
\* during that same call succeeded on it; a cached handle whose revalidation
\* probe fails is discarded and a fresh handle is probed; when no probe
\* succeeds the call raises and the process-wide handle is left empty.
C1_HandleOnlyAfterProbe ==
    (pc = "done" /\ op.tool = "get_unreal_connection") =>
        /\ result.handle # "none" => \E i \in 1..Len(log) : log[i].fn = "test_connection" /\ log[i].target = Handle(result.handle) /\ log[i].out # "err"
        /\ (\E i \in 1..Len(log) : log[i].target = Handle("cached") /\ log[i].out = "err") => \E j \in 1..Len(log) : log[j].target = Handle("fresh")
        /\ (\A i \in 1..Len(log) : log[i].out = "err") => (result.raised /\ conn[Global(op.impl)] = "None")

\* C2: after an operation in which a send_command failed with a transport
\* error the shared handle is invalidated (the global no longer holds it),
\* and an operation issues no remote call before a liveness probe.
C2_InvalidatedAfterTransportError ==
    /\ (pc = "done" /\ HadTransportError(log)) => conn[Global(op.impl)] = "None"
    /\ (pc = "done" /\ log # <<>>) => log[1].fn = "test_connection"

\* C8: vector_to_ue_format keeps the leading components of a list shorter
\* than the key list and fills only the missing trailing fields with their
\* defaults; for an absent or non-list input every field gets its default.
C8_ShortVectorKeepsComponents ==
    (pc = "done" /\ op.tool = "vector_to_ue_format") =>
        LET keys == IF op.keys = <<>> THEN KeysXYZ ELSE op.keys
        IN  /\ (op.vector.t = "list" /\ Len(op.vector.v) < Len(keys) /\ \A i \in 1..Len(op.vector.v) : IsNumber(op.vector.v[i])) =>
                /\ result.kind = "dict"
                /\ \A i \in 1..Len(keys) : result.d[keys[i]] = IF i <= Len(op.vector.v) THEN ToFloat(op.vector.v[i]) ELSE DefaultField(keys[i])
            /\ op.vector.t # "list" => (result.kind = "dict" /\ \A i \in 1..Len(keys) : result.d[keys[i]] = DefaultField(keys[i]))

\* The fragments of the type inference, and the tag each stands for.
C10_Fragments == {StrStaticMeshActor, StrLight, StrPlayerStart, StrSkyAtmosphere, StrSkyLight, StrFog, StrVolumetricCloud}
C10_TagOf(f) ==
    CASE f = StrStaticMeshActor -> "StaticMeshActor" [] f = StrLight -> "Light" [] f = StrPlayerStart -> "PlayerStart"
      [] f = StrSkyAtmosphere -> "SkyAtmosphere" [] f = StrSkyLight -> "SkyLight" [] f = StrFog -> "Fog" [] f = StrVolumetricCloud -> "VolumetricCloud"

\* C10: the type tag of an actor is the tag of the class fragment the actor
\* belongs to (the longest known fragment its class name carries: a SkyLight
\* is a SkyLight, a PointLight a Light), and "Unknown" when the path contains
\* none of the fragments.
C10_TagOfOwnClass ==
    (pc = "done" /\ op.tool = "infer_type") =>
        LET in == {f \in C10_Fragments : Contains(op.cls, f)}
        IN  /\ in # {} => result.type = C10_TagOf(CHOOSE f \in in : \A g \in in : Len(g) <= Len(f))
            /\ (\A f \in C10_Fragments : ~Contains(op.path, f)) => result.type = "Unknown"

\* The place of a round trip in the order of the fields of modify_actor:
\* location, rotation, scale, visibility, colour; 0 for the lookup's calls.
C3_Rank(fn) ==
    CASE fn = "SetActorLocation" -> 1 [] fn = "SetActorRotation" -> 2 [] fn = "SetActorScale3D" -> 3
      [] fn = "SetActorHiddenInGame" -> 4
      [] fn \in {"GetClass", "GetComponentByClass", "CreateDynamicMaterialInstance", "SetVectorParameterValue"} -> 5
      [] OTHER -> 0
C3_Count(f) == Cardinality({i \in 1..Len(log) : C3_Rank(log[i].fn) = f})
C3_Field(f) == CASE f = 1 -> {"location"} [] f = 2 -> {"rotation"} [] f = 3 -> {"scale"} [] f = 4 -> {"visible"} [] f = 5 -> {"color", "material_color"}
C3_Present(f) == C3_Field(f) \cap DOMAIN op.params # {}
C3_InOrder == \A i, j \in 1..Len(log) : (i < j /\ C3_Rank(log[i].fn) > 0 /\ C3_Rank(log[j].fn) > 0) => C3_Rank(log[i].fn) <= C3_Rank(log[j].fn)
C3_Found == pc = "done" /\ op.tool = "modify_actor" /\ result.path # <<>>
\* C3: for an actor the lookup found, modify_actor issues one
\* remote call for every field present in the input (the colour: its calls)
\* and none for an absent one, in the order location, rotation, scale,
\* visibility, colour; with only actor_label and location exactly one
\* SetActorLocation.
C3_OneCallPerField ==
    C3_Found =>
        /\ \A f \in 1..4 : C3_Count(f) = IF C3_Present(f) THEN 1 ELSE 0
        /\ C3_Count(5) > 0 <=> C3_Present(5)
        /\ C3_InOrder
        /\ DOMAIN op.params = {"actor_label", "location"} => (C3_Count(1) = 1 /\ \A f \in 2..5 : C3_Count(f) = 0)


C4_StepFns == {"SetStaticMesh", "SetActorScale3D", "SetActorLabel", "SetMaterial", "CreateDynamicMaterialInstance", "SetVectorParameterValue"}
C4_SpawnedAt(i) == i \in 1..Len(log) /\ log[i].fn = "SpawnActorFromClass" /\ log[i].out = "ok"

\* C4: in create-primitive, when a step after a successful spawn fails (set
\* mesh, set scale, set label, a material or colour step), that step alone is
\* skipped: the mesh and the label steps are still attempted and the
\* operation reports success.
C4_FailedStepSkippedAlone ==
    (pc = "done" /\ op.tool = "create_static_mesh_actor"
       /\ \E s, i \in 1..Len(log) : C4_SpawnedAt(s) /\ s < i /\ log[i].fn \in C4_StepFns /\ log[i].out = "err") =>
        /\ result.kind = "ok"
        /\ \A fn \in {"SetStaticMesh", "SetActorLabel"} : \E i \in 1..Len(log) : log[i].fn = fn

\* C5: a create operation answers 'Failed to spawn' only when no actor was
\* created in the engine: never after a spawn call that succeeded.
C5_FailedToSpawnOnlyWithoutActor ==
    (pc = "done" /\ op.tool \in {"create_static_mesh_actor", "spawn_actor_from_blueprint"}
       /\ result.msg \in {"Error: Failed to spawn static mesh actor", "Error: Failed to spawn actor", "Error: Failed to spawn actor from blueprint class"}) =>
        ~\E s \in 1..Len(log) : C4_SpawnedAt(s)

\* C7: create-primitive with a mesh name outside the five of the table and no
\* explicit asset path answers the error that names the supported set and
\* issues no spawn call; with an explicit asset path, that path is the mesh
\* set, whatever the mesh name.  (Of the runs in which every round trip went
\* through.)
C7_UnknownMeshRejected ==
    (pc = "done" /\ op.tool = "create_static_mesh_actor" /\ \A i \in 1..Len(log) : log[i].out = "ok") =>
        LET p == op.params
            explicit == "static_mesh_asset_path" \in DOMAIN p
            unknown == "mesh_type" \in DOMAIN p /\ p["mesh_type"].t = "str" /\ Upper(p["mesh_type"].v) \notin BasicShapeNames
        IN  /\ (unknown /\ ~explicit /\ "static_mesh" \notin DOMAIN p) =>
                /\ result.msg = "Error: Unsupported mesh type. Supported types are: CUBE, SPHERE, CYLINDER, PLANE, CONE"
                /\ \A i \in 1..Len(log) : log[i].fn # "SpawnActorFromClass"
            /\ explicit =>
                /\ result.kind = "ok"
                /\ \E i \in 1..Len(log) : log[i].fn = "SetStaticMesh" /\ log[i].params.NewMesh = p["static_mesh_asset_path"]

\* The round trips of the last operation that delete an actor.
C6_DeleteCalls == {i \in 1..Len(log) : log[i].fn \in {"DestroyActor", "K2_DestroyActor"}}

\* C6: the tool surface has a delete-actor operation: a request for it looks
\* the actor up by label and answers with one remote delete call on the
\* actor found, or with a not-found message, no delete call and no error
\* when no actor has the label.
C6_DeleteActorOperation ==
    (pc = "done" /\ op.tool = "delete_actor") =>
        /\ result.kind \in {"ok", "notfound"}
        /\ \E i \in 1..Len(log) : log[i].fn = "GetAllLevelActors"
        /\ result.kind = "ok" => Cardinality(C6_DeleteCalls) = 1
        /\ result.kind = "notfound" => C6_DeleteCalls = {}

\* C9: with no search term and no limit reached, get_available_assets keeps
\* /Game/Meshes/SM_Bench under the type filter 'staticmesh' and leaves it
\* out under the type filter 'material'.
C9_BenchKeptUnderOwnType ==
    (pc = "done" /\ op.tool = "get_available_assets" /\ result.kind = "json"
       /\ DOMAIN op.params = {"asset_type"} /\ op.params["asset_type"].t = "str"
       /\ Last(log).out = "ok" /\ \E i \in 1..Len(op.listing) : op.listing[i] = StrBenchPath) =>
        /\ Lower(op.params["asset_type"].v) = StrStaticmesh => \E i \in 1..Len(result.assets) : result.assets[i] = StrBenchPath
        /\ Lower(op.params["asset_type"].v) = StrMaterial => \A i \in 1..Len(result.assets) : result.assets[i] # StrBenchPath

\* The result cap of a request: max_results, 20 when the input has none.
C11_Cap == GetD(op.params, "max_results", PyInt(DefaultMaxResults))

\* C11: the assets list returned by get_available_assets never has more
\* entries than max_results, for every cap and every listing the engine
\* answers.
C11_NeverMoreThanCap ==
    (pc = "done" /\ op.tool = "get_available_assets" /\ result.kind = "json" /\ IsNumber(C11_Cap)) =>
        Len(result.assets) <= C11_Cap.v


\* Vector texts and the lists they stand for.
C13_Cases ==
    { [blob |-> <<"l","o","c","a","t","i","o","n","=","1",",","2",",","3">>, key |-> <<"l","o","c","a","t","i","o","n">>, value |-> <<PyFloat(1), PyFloat(2), PyFloat(3)>>],
      [blob |-> <<"l","o","c","a","t","i","o","n","=","-","1","0","0",",","0",",","5","0">>, key |-> <<"l","o","c","a","t","i","o","n">>, value |-> <<PyFloat(0 - 100), PyFloat(0), PyFloat(50)>>],
      [blob |-> <<"r","o","t","a","t","i","o","n","=","0",",","4","5",",","0">>, key |-> <<"r","o","t","a","t","i","o","n">>, value |-> <<PyFloat(0), PyFloat(45), PyFloat(0)>>],
      [blob |-> <<"s","c","a","l","e","=","1",".","5",",","2",",","0",".","2","5">>, key |-> <<"s","c","a","l","e">>, value |-> <<PyDec(15, 10), PyFloat(2), PyDec(25, 100)>>],
      [blob |-> <<"c","o","l","o","r","=","1",",","0",",","0">>, key |-> <<"c","o","l","o","r">>, value |-> <<PyFloat(1), PyFloat(0), PyFloat(0)>>],
      [blob |-> <<"m","a","t","e","r","i","a","l","_","c","o","l","o","r","=","0",".","5",",","0",".","5",",","1">>, key |-> <<"m","a","t","e","r","i","a","l","_","c","o","l","o","r">>, value |-> <<PyDec(5, 10), PyDec(5, 10), PyFloat(1)>>] }

\* C13: under each of the five vector keys a comma-separated numeric value
\* parses to the list of its components as floats, in every parser the
\* tools use.
C13_VectorIsFloatList ==
    \A c \in C13_Cases :
        (pc = "done" /\ op.tool = "parse_kwargs" /\ op.blob = PyStr(c.blob)) =>
            result = Dict(c.key :> PyList(c.value))


\* Scalar texts and the mappings the rules give them: boolean in any case,
\* then digits as an integer, then a float with at most one point, then the
\* text itself.
C14_Cases ==
    { [blob |-> <<"k","e","y","=","t","r","u","e">>, d |-> <<"k","e","y">> :> PyBool(TRUE)],
      [blob |-> <<"k","e","y","=","T","r","u","e">>, d |-> <<"k","e","y">> :> PyBool(TRUE)],
      [blob |-> <<"k","e","y","=","F","A","L","S","E">>, d |-> <<"k","e","y">> :> PyBool(FALSE)],
      [blob |-> <<"k","e","y","=","4","2">>, d |-> <<"k","e","y">> :> PyInt(42)],
      [blob |-> <<"k","e","y","=","0","0","7">>, d |-> <<"k","e","y">> :> PyInt(7)],
      [blob |-> <<"k","e","y","=","3",".","5">>, d |-> <<"k","e","y">> :> PyDec(35, 10)],
      [blob |-> <<"k","e","y","=",".","5">>, d |-> <<"k","e","y">> :> PyDec(5, 10)],
      [blob |-> <<"k","e","y","=","5",".">>, d |-> <<"k","e","y">> :> PyFloat(5)],
      [blob |-> <<"k","e","y","=","-","3",".","5">>, d |-> <<"k","e","y">> :> PyDec(0 - 35, 10)],
      [blob |-> <<"k","e","y","=","-","4","2">>, d |-> <<"k","e","y">> :> PyFloat(0 - 42)],
      [blob |-> <<"k","e","y","=","f","o","o">>, d |-> <<"k","e","y">> :> PyStr(<<"f","o","o">>)],
      [blob |-> <<"k","e","y","=","1",".","2",".","3">>, d |-> <<"k","e","y">> :> PyStr(<<"1",".","2",".","3">>)],
      [blob |-> <<"k","e","y","=",".">>, d |-> <<"k","e","y">> :> PyStr(<<".">>)],
      [blob |-> <<"k","e","y","=">>, d |-> <<"k","e","y">> :> PyStr(<<>>)],
      [blob |-> <<"n","a","m","e","=","a",",","b">>, d |-> <<"n","a","m","e">> :> PyStr(<<"a",",","b">>)],
      [blob |-> <<"a","=","b","=","c">>, d |-> <<"a">> :> PyStr(<<"b","=","c">>)],
      [blob |-> <<"n","o","e","q","u","a","l","s">>, d |-> <<>>] }

\* C14: a value that is no vector becomes a boolean, an integer, a float or
\* stays the same text, by the rules in that order; a token without '=' adds
\* no key and a token is split at its first '='.
C14_ScalarRules ==
    \A c \in C14_Cases :
        (pc = "done" /\ op.tool = "parse_kwargs" /\ op.blob = PyStr(c.blob)) =>
            result = Dict(c.d)

\* The same without the signed numbers.
C14_Unsigned ==
    \A c \in C14_Cases :
        (pc = "done" /\ op.tool = "parse_kwargs" /\ op.blob = PyStr(c.blob) /\ \A i \in DOMAIN c.blob : c.blob[i] # "-") =>
            result = Dict(c.d)


\* C15: a text in braces that does not decode as JSON never makes the parser
\* raise: the result is the mapping of the key=value tokens of the same text.
C15_MalformedJsonFallsThrough ==
    (pc = "done" /\ op.tool = "parse_kwargs" /\ op.blob.t = "str" /\ op.blob.v \in MalformedJsonBlobs) =>
        /\ result.kind = "dict"
        /\ result = parse_pairs(op.impl, op.blob.v)

\* The same for the parsers other than the tool's inline one.
C15_SharedParsers ==
    op.impl # "S" => C15_MalformedJsonFallsThrough


\* The same for caps of at least one.
C11_PositiveCap ==
    (pc = "done" /\ op.tool = "get_available_assets" /\ result.kind = "json" /\ IsNumber(C11_Cap) /\ C11_Cap.v >= 1) =>
        Len(result.assets) <= C11_Cap.v


C12_Done == pc = "done" /\ op.tool = "search_assets_recursively"
\* The directories of the ListAssets round trips, in the order sent.
C12_Listed == SelectSeq(log, LAMBDA e : e.fn = "ListAssets")
\* The first place of a path among all the per-subdirectory results.
C12_FirstSeen(path) == CHOOSE i \in 1..Len(result.all_assets) : result.all_assets[i] = path /\ \A j \in 1..(i - 1) : result.all_assets[j] # path

C16_Done == pc = "done" /\ op.tool = "create_composite_mesh"
\* The number of primitives of each recipe.
C16_Count == (StrTower :> 3) @@ (StrWall :> 12) @@ (StrStairs :> 10) @@ (StrTableChair :> 30) @@ (StrHouse :> 9)

\* C16: a recipe that runs asks create-primitive for a fixed number of
\* actors: tower 3, wall 12, stairs 10, table_chair 30, house 9.
C16_FixedCounts ==
    (C16_Done /\ result.recipe \in Recipes) => Len(result.requested) = C16_Count[result.recipe]

\* The calls each recipe lists in its text: as C16_Count, but 29 for
\* table_chair (1 top, 4 legs, 4 chairs of 6).
C16_CallSites ==
    \A r \in Recipes : Len(RecipeParts(r)) = IF r = StrTableChair THEN 29 ELSE C16_Count[r]

\* The recipe a blob names: its shape, else its composition_type, in upper
\* case.
C17_Named ==
    LET d == parse_kwargs("K", op.blob)
        shape == IF d.kind = "dict" THEN GetT(d.d, <<"s","h","a","p","e">>) ELSE PyNone
        composition_type == IF d.kind = "dict" THEN GetT(d.d, <<"c","o","m","p","o","s","i","t","i","o","n","_","t","y","p","e">>) ELSE PyNone
    IN  IF shape.t = "str" THEN Upper(shape.v) ELSE IF composition_type.t = "str" THEN Upper(composition_type.v) ELSE <<>>

\* C17: create_composite_mesh runs the recipe its shape or composition_type
\* names, in whatever letter case the name is written.
C17_RecipeWhateverCase ==
    (C16_Done /\ C17_Named \in Recipes) => result.recipe = C17_Named

\* The same for names written in upper case, in composite_meshes.
C17_UpperCase ==
    (C16_Done /\ op.impl = "K" /\ op.blob.t = "str" /\ op.blob.v = Upper(op.blob.v) /\ C17_Named \in Recipes) => result.recipe = C17_Named


C19_Done == pc = "done" /\ op.tool = "modify_actor"
\* The enumeration of the label lookup failed with a transport error.
C19_EnumerationFailed == \E i \in 1..Len(log) : log[i].fn = "GetAllLevelActors" /\ log[i].out = "err"

\* C19: when the actor-enumeration call of the label lookup fails with a
\* transport error, modify-actor reports an error, not 'actor not found'.
C19_EnumerationFailureReported ==
    (C19_Done /\ C19_EnumerationFailed) => result.kind = "error"

\* The same for unreal_modeling.modify_actor, which enumerates inline.
C19_ModelingReports ==
    (C19_Done /\ op.impl = "M" /\ C19_EnumerationFailed) => result.kind = "error"

\* No live actor carries the label asked for, or none is asked for.
C20_NoSuchActor ==
    \/ ~Truthy(Get(op.params, "actor_label"))
    \/ \A i \in 1..Len(actors) : actors[i].label # op.params["actor_label"].v
C20_StateChanging == {"SetActorLocation", "SetActorRotation", "SetActorScale3D", "SetActorHiddenInGame", "SetActorLabel", "CreateDynamicMaterialInstance", "SetVectorParameterValue", "SetMaterial", "SetStaticMesh"}

\* C20: modify-actor for a label no live actor carries, or without a label,
\* sends no state-changing call and does not report success; when no round
\* trip failed it answers not found, or missing parameter.
C20_NoEffectWithoutTarget ==
    (C19_Done /\ C20_NoSuchActor) =>
        /\ \A i \in 1..Len(log) : log[i].fn \notin C20_StateChanging
        /\ result.kind # "ok"
        /\ (\A i \in 1..Len(log) : log[i].out # "err") =>
               result.kind = IF Truthy(Get(op.params, "actor_label")) THEN "notfound" ELSE "missing"

\* The same when every GetActorLabel round trip is answered.
C20_LabelsAnswered ==
    (\A i \in 1..Len(log) : log[i].fn = "GetActorLabel" => log[i].out # "err") => C20_NoEffectWithoutTarget

\* C18: every operation entry point ends by returning a string, for every
\* parameter blob (vectors with malformed numbers included) and every pattern
\* of remote-call failures: the result the caller gets is one of the texts
\* or JSON reports of the handler, never an exception.
C18_Strings == {"ok", "error", "json", "missing", "notfound", "unknown"}
C21_Rank(fn) ==
    CASE fn = "SpawnActorFromClass" -> 1 [] fn = "GetComponentByClass" -> 2 [] fn = "SetStaticMesh" -> 3
      [] fn = "SetActorScale3D" -> 4 [] fn = "SetActorLabel" -> 5
      [] fn \in {"SetMaterial", "CreateDynamicMaterialInstance", "SetVectorParameterValue"} -> 6
      [] OTHER -> 0
C21_Done == pc = "done" /\ op.tool = "create_static_mesh_actor"
C21_Ordered ==
    /\ \A i, j \in 1..Len(log) : (i < j /\ C21_Rank(log[i].fn) > 0 /\ C21_Rank(log[j].fn) > 0) => C21_Rank(log[i].fn) <= C21_Rank(log[j].fn)
    /\ \A i \in 1..Len(log) : log[i].fn = "SpawnActorFromClass" =>
           \A k \in {"location", "rotation"} : (k \in DOMAIN op.params /\ IsList3(op.params[k])) =>
               (IF k = "location" THEN "Location" ELSE "Rotation") \in DOMAIN log[i].params
    /\ \A j \in 1..Len(log) : log[j].target.k \in {"actor", "component", "material"} =>
           \E i \in 1..(j - 1) : log[i].fn = "SpawnActorFromClass" /\ log[i].out = "ok"
\* C21: creating a primitive issues its remote calls in the order spawn
\* (carrying the location and the rotation given), get the static-mesh
\* component, set the mesh, set the scale, set the label, and only then the
\* material or colour calls; nothing is addressed to the actor or to its
\* component before the spawn answered a reference.
C21_CreateOrder == C21_Done => C21_Ordered
\* The same of unreal_modeling and of the server's tool alone.
C21_ModelingOrder == (C21_Done /\ op.impl \in {"M", "S"}) => C21_Ordered

C22_Count(fn) == Cardinality({i \in 1..Len(log) : log[i].fn = fn})
C22_At(fn) == CHOOSE i \in 1..Len(log) : log[i].fn = fn
\* A create of a primitive all of whose round trips were answered.
C22_Created == pc = "done" /\ op.tool = "create_static_mesh_actor" /\ result.kind = "ok" /\ \A i \in 1..Len(log) : log[i].out = "ok"
C22_Colour == Or(Get(op.params, "color"), Get(op.params, "material_color"))
C22_OverrideAlone == C22_Count("SetMaterial") = 1 /\ C22_Count("CreateDynamicMaterialInstance") = 0 /\ C22_Count("SetVectorParameterValue") = 0
C22_ColourCalls ==
    /\ C22_Count("SetMaterial") = 0 /\ C22_Count("CreateDynamicMaterialInstance") = 1 /\ C22_Count("SetVectorParameterValue") = 1
    /\ C22_At("CreateDynamicMaterialInstance") < C22_At("SetVectorParameterValue")
    /\ log[C22_At("SetVectorParameterValue")].params.Value =
           [R |-> C22_Colour.v[1], G |-> C22_Colour.v[2], B |-> C22_Colour.v[3], A |-> IF Len(C22_Colour.v) >= 4 THEN C22_Colour.v[4] ELSE PyFloat(1)]
\* C22: in create-primitive a given material override causes exactly one
\* SetMaterial call and no dynamic-material or colour call; otherwise a
\* colour of at least three components causes CreateDynamicMaterialInstance
\* followed by one SetVectorParameterValue whose value has R, G, B from the
\* colour and A equal to the 4th component when there is one, 1.0 otherwise.
C22_MaterialOrColour ==
    C22_Created =>
        IF Truthy(Get(op.params, "material_override")) THEN C22_OverrideAlone
        ELSE IsList3(C22_Colour) => C22_ColourCalls
\* The same of unreal_actors alone.
C22_ActorsMaterialOrColour == op.impl = "A" => C22_MaterialOrColour
\* The same of colours of three components, without the override, in every copy.
C22_ThreeComponents ==
    (C22_Created /\ ~Truthy(Get(op.params, "material_override")) /\ IsList3(C22_Colour) /\ Len(C22_Colour.v) = 3) => C22_ColourCalls

C23_ComponentCalls == {"GetComponentByClass", "CreateDynamicMaterialInstance", "SetVectorParameterValue"}
\* modify_actor found a target that is no static mesh actor.
C23_OtherTarget == pc = "done" /\ op.tool = "modify_actor" /\ result.path # <<>> /\ ~Contains(ClassOf(actors, result.path), StrStaticMeshActor)
\* C23: modify-actor with a colour fetches the static-mesh component only
\* after it has determined that the target is a static-mesh actor: for a
\* target that is none it issues no GetComponentByClass,
\* CreateDynamicMaterialInstance or SetVectorParameterValue call.
C23_ComponentOnlyOfStaticMesh == C23_OtherTarget => \A i \in 1..Len(log) : log[i].fn \notin C23_ComponentCalls
\* unreal_modeling alone: no such call for another target, and the component
\* is asked for only after GetClass answered.
C23_ModelingAsksClassFirst ==
    (pc = "done" /\ op.tool = "modify_actor" /\ op.impl = "M") =>
        /\ C23_OtherTarget => \A i \in 1..Len(log) : log[i].fn \notin C23_ComponentCalls
        /\ \A j \in 1..Len(log) : log[j].fn \in C23_ComponentCalls => \E i \in 1..(j - 1) : log[i].fn = "GetClass" /\ log[i].out = "ok"

C24_Done == pc = "done" /\ op.tool = "get_available_assets"
C24_At(fn) == {i \in 1..Len(log) : log[i].fn = fn}
\* What the filter makes of the answer of the i-th round trip.
C24_Filter(i) ==
    filter_assets(IF log[i].out = "empty" THEN <<>> ELSE op.listing, Lower(GetD(op.params, "asset_type", PyStr(StrAll)).v),
                  GetD(op.params, "search_term", PyStr(<<>>)), GetD(op.params, "max_results", PyInt(DefaultMaxResults)), 1, <<>>)
\* The attempt of the i-th round trip failed: the call raised, or the filter.
C24_Failed(i) == log[i].out = "err" \/ C24_Filter(i).raised
C24_Error(i) == IF log[i].out = "err" THEN "RequestException" ELSE "TypeError"
\* C24: list-assets calls GetAssetsByPath at most once per operation and only
\* after the ListAssets attempt failed (then it does); when the primary
\* succeeds the alternate is never called and the primary's filtered result
\* is returned, when the alternate succeeds its filtered result is returned,
\* and when both fail the result is one error text that carries both failures.
C24_RetryOnceThenCombinedError ==
    C24_Done =>
        /\ Cardinality(C24_At("ListAssets")) <= 1 /\ Cardinality(C24_At("GetAssetsByPath")) <= 1
        /\ \A j \in C24_At("GetAssetsByPath") : \E i \in C24_At("ListAssets") : i < j /\ C24_Failed(i)
        /\ \A i \in C24_At("ListAssets") :
              IF ~C24_Failed(i) THEN C24_At("GetAssetsByPath") = {} /\ result.kind = "json" /\ result.assets = C24_Filter(i).assets
              ELSE C24_At("GetAssetsByPath") # {}
        /\ \A j \in C24_At("GetAssetsByPath") :
              IF ~C24_Failed(j) THEN result.kind = "json" /\ result.assets = C24_Filter(j).assets
              ELSE /\ result.kind = "error" /\ "failures" \in DOMAIN result
                   /\ \A i \in C24_At("ListAssets") : result.failures = <<C24_Error(i), C24_Error(j)>>
\* The primary call raised and the alternate answered assets that are reported.
C24_AlternateAnswered ==
    /\ C24_Done /\ result.kind = "json" /\ result.assets # <<>>
    /\ \E i \in C24_At("ListAssets"), j \in C24_At("GetAssetsByPath") : log[i].out = "err" /\ log[j].out = "ok"
\* Both attempts failed, the first in its filter and the second on the wire.
C24_BothFailed ==
    C24_Done /\ result.kind = "error" /\ "failures" \in DOMAIN result /\ result.failures = <<"TypeError", "RequestException">>

\* The round trips that only ask: the probe, the enumeration, the label, the
\* Get* calls on the actor and on the component.
C25_Queries ==
    {"test_connection", "GetAllLevelActors", "GetActorLabel", "GetActorLocation", "GetActorRotation", "GetActorScale3D", "GetActorBounds",
     "GetComponentByClass", "GetStaticMesh", "GetMaterial", "GetBounds"}
\* C25: get-actor-info is read-only: every remote call it issues is a query,
\* so the location, rotation, scale, mesh and material of every actor are
\* left as they were.
C25_ReadOnly == (pc = "done" /\ op.tool = "get_actor_info") => \A i \in 1..Len(log) : log[i].fn \in C25_Queries
\* The same of unreal_actors alone.
C25_ActorsReadOnly == (pc = "done" /\ op.tool = "get_actor_info" /\ op.impl = "A") => \A i \in 1..Len(log) : log[i].fn \in C25_Queries

\* modify_actor found a target.
C26_Found == pc = "done" /\ op.tool = "modify_actor" /\ result.path # <<>>
C26_Index(path) == CHOOSE i \in 1..Len(actors) : actors[i].path = path
C26_Asked == Get(op.params, "actor_label")
C26_FirstOfLabel ==
    /\ C26_Asked.t = "str" /\ LabelOf(actors, result.path) = C26_Asked.v
    /\ \A i \in 1..(C26_Index(result.path) - 1) : actors[i].label # C26_Asked.v
\* C26: the label lookup returns the reference of an actor only when that
\* actor's display label equals the requested label, and it returns the first
\* such actor in enumeration order; modify-actor therefore never acts on an
\* actor whose label differs from the one asked for, also when some
\* GetActorLabel calls fail.
C26_OnlyTheLabelAsked == C26_Found => C26_FirstOfLabel
\* The same when every round trip was answered in full.
C26_WhenAnswered == (C26_Found /\ \A i \in 1..Len(log) : log[i].out = "ok") => C26_FirstOfLabel
\* unreal_modeling's loop never answers an actor of another label.
C26_ModelingLabel == (C26_Found /\ op.impl = "M") => (C26_Asked.t = "str" /\ LabelOf(actors, result.path) = C26_Asked.v)

C27_Call(k) == CASE k = "location" -> "SetActorLocation" [] k = "rotation" -> "SetActorRotation" [] k = "scale" -> "SetActorScale3D"
C27_Fields == {"location", "rotation", "scale"}
\* The value is a list of at least three numbers.
C27_ThreeNumbers(x) == x.t = "list" /\ Len(x.v) >= 3 /\ \A i \in 1..3 : IsNumber(x.v[i])
C27_Done == pc = "done" /\ op.tool = "modify_actor"
\* C27: modify-actor changes a transform only to the value the caller
\* supplied: a location, rotation or scale that is present but is not a list
\* of at least three numbers causes no SetActorLocation, SetActorRotation or
\* SetActorScale3D call, so the actor is never moved, rotated or scaled to
\* default values.
C27_NoDefaultTransform ==
    C27_Done => \A k \in C27_Fields \cap DOMAIN op.params :
        ~C27_ThreeNumbers(op.params[k]) => \A i \in 1..Len(log) : log[i].fn # C27_Call(k)
\* unreal_modeling alone, for values that are no list of three components.
C27_ModelingSkipsShort ==
    (C27_Done /\ op.impl = "M") => \A k \in C27_Fields \cap DOMAIN op.params :
        ~(op.params[k].t = "list" /\ Len(op.params[k].v) >= 3) => \A i \in 1..Len(log) : log[i].fn # C27_Call(k)
\* A transform call never carries anything but the components supplied, when
\* they are three numbers.
C27_SuppliedValues ==
    C27_Done => \A k \in C27_Fields \cap DOMAIN op.params : C27_ThreeNumbers(op.params[k]) =>
        \A i \in 1..Len(log) : log[i].fn = C27_Call(k) =>
            \E f \in {log[i].params[n] : n \in DOMAIN log[i].params} : {f[c].v : c \in DOMAIN f} \subseteq {op.params[k].v[j].v : j \in 1..3}

C28_Labels == {i \in 1..Len(log) : log[i].fn = "SetActorLabel"}
\* A create operation that reports success.
C28_Created == pc = "done" /\ op.tool \in {"create_static_mesh_actor", "spawn_actor_from_blueprint"} /\ result.kind = "ok"
C28_NameIsLabel == C28_Labels # {} /\ \A i \in C28_Labels : log[i].params.NewActorLabel = result.name
\* C28: the actor name in the success message of a create operation is the
\* label that was applied to the actor with SetActorLabel in that operation,
\* for every input, including one that gives no actor_label, name or label.
C28_ReportedNameIsAppliedLabel == C28_Created => C28_NameIsLabel
\* The same of the inputs that name the actor.
C28_WhenNamed == (C28_Created /\ {"actor_label", "name", "label"} \cap DOMAIN op.params # {}) => C28_NameIsLabel
\* The same of unreal_modeling and of the server's tool.
C28_ModelingName == (C28_Created /\ op.impl \in {"M", "S"}) => C28_NameIsLabel


C29_Ran == C16_Done /\ result.recipe \in Recipes
\* The primitives of the recipe that ran which were not created.
C29_Missing == Len(RecipeParts(result.recipe)) - Len(result.requested)

C30_Report == pc = "done" /\ op.tool \in {"get_available_assets", "search_assets_recursively"} /\ "total_found" \in DOMAIN result /\ result.kind # "error"

\* C30: in every JSON report of list-assets and of the recursive search,
\* total_found is the number of entries of the assets list of that report.
C30_TotalIsListLength == C30_Report => result.total_found = Len(result.assets)
\* The same of the reports of list-assets alone.
C30_ListAssetsTotal == (C30_Report /\ op.tool = "get_available_assets") => result.total_found = Len(result.assets)
\* The recursive search counts the distinct paths it collected, cut or not.
C30_SearchCountsBeforeCut ==
    (C30_Report /\ op.tool = "search_assets_recursively") =>
        /\ result.total_found >= Len(result.assets)
        /\ result.total_found = Cardinality({result.all_assets[k] : k \in 1..Len(result.all_assets)})
        /\ (result.total_found <= op.args.max_results => result.total_found = Len(result.assets))

=============================================================================
